---- MODULE Spec2Model ----
(***************************************************************************)
(* The retrieval-augmented answer pipeline of ifaqai:                      *)
(* handleChatbotQuery (GET /api/chatbot) over the D1 tables Users and      *)
(* FAQs, the Vectorize index and the Workers AI embedding / LLM models.    *)
(* One request is a sequential chain of awaited gateway calls; every       *)
(* action below is one awaited call together with the synchronous handler  *)
(* code that runs up to the next await (or up to the returned response).   *)
(***************************************************************************)
EXTENDS Naturals, Integers, Sequences, FiniteSets, TLC

(***************************************************************************)
(* Bounds of the model                                                     *)
(***************************************************************************)
\* FAQ rows 1..FreeRows are owned by any tenant or deleted, independently
FreeRows == 2
\* FAQ rows FreeRows+1..FreeRows+TailRows were inserted by a single tenant
TailRows == 4
\* number of matches the vector index may return for one query (<= TopK)
MaxMatches == 2
\* length of the match lists the tenant filter is applied to on its own
MaxLongMatches == 7
\* number of POST /api/users requests, which may be in progress together
MaxClients == 2
\* number of FAQ operations (create, update, delete, retrain) the server is
\* asked for, which may be in progress together
MaxOperations == 2
\* maxAttempts of waitForWorkflowCompletion (the default of the code is 30;
\* the bound must exceed the 5 attempts of its "404" branch)
MaxAttempts == 6
\* number of mutations of useFAQs that may overlap
MaxMutations == 2

(***************************************************************************)
(* Program constants                                                       *)
(***************************************************************************)
\* .slice(0, 5) after the tenant filter, and LIMIT 5 of the recency read
MaxContext == 5
\* topK of the Vectorize query
TopK == 10

(***************************************************************************)
(* JavaScript values.  A value is undefined, null, a number or a string;   *)
(* a string is a sequence of one-character strings, so that trim,          *)
(* toString and parseInt are computed and not assumed.                     *)
(***************************************************************************)
Undefined == [t |-> "undefined", n |-> 0, s |-> <<>>]
Null == [t |-> "null", n |-> 0, s |-> <<>>]
Num(k) == [t |-> "number", n |-> k, s |-> <<>>]
Str(chars) == [t |-> "string", n |-> 0, s |-> chars]

\* parseInt / SQL conversions that yield no integer
NaN == -1

DigitChars == <<"0", "1", "2", "3", "4", "5", "6", "7", "8", "9">>

IsDigit(ch) == \E i \in 1..10 : DigitChars[i] = ch

DigitValue(ch) == (CHOOSE i \in 1..10 : DigitChars[i] = ch) - 1

\* Number.prototype.toString() of a non-negative integer
RECURSIVE NumToString(_)
NumToString(k) ==
    IF k < 10 THEN <<DigitChars[k + 1]>>
    ELSE NumToString(k \div 10) \o <<DigitChars[(k % 10) + 1]>>

\* value of the longest all-digit prefix of chars, read left to right
RECURSIVE DigitsPrefix(_, _, _)
DigitsPrefix(chars, i, acc) ==
    IF i > Len(chars) \/ ~IsDigit(chars[i]) THEN acc
    ELSE DigitsPrefix(chars, i + 1, acc * 10 + DigitValue(chars[i]))

IsSpace(ch) == ch = " "

\* String.prototype.trim()
RECURSIVE Trim(_)
Trim(chars) ==
    IF chars = <<>> THEN <<>>
    ELSE IF IsSpace(Head(chars)) THEN Trim(Tail(chars))
    ELSE IF IsSpace(chars[Len(chars)]) THEN Trim(SubSeq(chars, 1, Len(chars) - 1))
    ELSE chars

\* parseInt(id, 10): leading whitespace is skipped, then the digits prefix
ParseInt(chars) ==
    LET body == Trim(chars) IN
    IF body = <<>> \/ ~IsDigit(Head(body)) THEN NaN
    ELSE DigitsPrefix(body, 1, 0)

\* JavaScript truthiness of a query parameter / column value
Truthy(v) ==
    \/ v.t = "string" /\ v.s # <<>>
    \/ v.t = "number" /\ v.n # 0

\* a || b
OrElse(a, b) == IF Truthy(a) THEN a ELSE b

\* v?.toString(): undefined for undefined / null, else the string form
ToStringOpt(v) ==
    IF v.t = "number" THEN Str(NumToString(v.n))
    ELSE IF v.t = "string" THEN v
    ELSE Undefined

\* value a bound parameter takes when compared with an INTEGER column
\* (SQLite integer affinity: a text that is a well-formed integer converts)
SqlInteger(v) ==
    IF v.t = "number" THEN v.n
    ELSE IF v.t = "string" /\ v.s # <<>> /\ \A i \in 1..Len(v.s) : IsDigit(v.s[i])
         THEN DigitsPrefix(v.s, 1, 0)
    ELSE NaN

(***************************************************************************)
(* State                                                                   *)
(***************************************************************************)
VARIABLES
    Users,                \* rows of the D1 table Users
    FAQs,                 \* rows of the D1 table FAQs
    pc,                   \* position of the handler: the call it awaits next
    req,                  \* the request being served (query parameters, caller)
    question,             \* const question
    chatbotOwnerId,       \* let chatbotOwnerId
    chatbotOwnerProfile,  \* let chatbotOwnerProfile
    vectorQuery,          \* let vectorQuery
    matchingFaqIds,       \* let matchingFaqIds
    faqs,                 \* let faqs
    messages,             \* const messages, as handed to the LLM
    response,             \* the Response the handler returned
    calls,                \* gateway calls made for this request, in order
    previous,             \* what the request before this one asked and retrieved
    Vectors,              \* points of the Vectorize index
    creating,             \* handleCreateUser: state of each request in progress
    deleting,             \* handleDeleteFAQ: state of the request in progress
    updating,             \* handleUpdateFAQ: state of the request in progress
    workflow,             \* FAQWorkflow.run: state of the instance in progress
    retraining,           \* POST /admin/retrain-embeddings in progress
    polling,              \* useFAQs: createMutation and waitForWorkflowCompletion
    cache,                \* useFAQs: queryClient data of ['faqs', userId]
    mutations,            \* useFAQs: the mutations in flight and their contexts
    started               \* number of FAQ operations the server has started

\* the FAQ handlers besides handleDeleteFAQ and the browser's useFAQs hook
later == <<updating, workflow, retraining, polling, cache, mutations>>

\* the state outside handleChatbotQuery and the two D1 tables
rest == <<previous, Vectors, creating, deleting, later, started>>

vars == <<Users, FAQs, pc, req, question, chatbotOwnerId, chatbotOwnerProfile,
          vectorQuery, matchingFaqIds, faqs, messages, response, calls, rest>>

(***************************************************************************)
(* The relational store                                                    *)
(***************************************************************************)
\* user_name values and query strings used by the model
Hi == <<"h", "i">>

\* CREATE TABLE Users: user_id is the key, email is unique
UserRows ==
    { [user_id |-> 1, email |-> <<"alice", "x.org">>, user_name |-> "alice",
       first_name |-> "Alice", last_name |-> "Ay", user_bio |-> "bio of alice"],
      [user_id |-> 2, email |-> <<"bob", "x.org">>, user_name |-> "bob",
       first_name |-> "Bob", last_name |-> "", user_bio |-> ""] }

TenantIds == {u.user_id : u \in UserRows}

\* created_at DEFAULT (datetime('now')): whole seconds, never decreasing with
\* the AUTOINCREMENT faq_id; two consecutive inserts may share a second
CreatedAt(id) == (id + 1) \div 2

FaqRow(id, owner) == [faq_id |-> id, user_id |-> owner, created_at |-> CreatedAt(id)]

FreeIds == 1..FreeRows
TailIds == (FreeRows + 1)..(FreeRows + TailRows)

\* owner of the later rows: the tenant the requests of the model address,
\* or 0 when those rows are deleted
TailOwners == {0, 1}

\* the FAQ tables the model starts from: owner 0 stands for a deleted row;
\* the later rows are all there, inserted by one tenant, or all deleted
FaqTables ==
    { {FaqRow(i, free[i]) : i \in {j \in FreeIds : free[j] # 0}}
        \cup {FaqRow(i, tail) : i \in {j \in TailIds : tail # 0}} :
      free \in [FreeIds -> {0} \cup TenantIds], tail \in TailOwners }

\* ORDER BY: the rows of S as a sequence, by ascending key (keys are distinct)
RECURSIVE OrderBy(_, _)
OrderBy(S, key) ==
    IF S = {} THEN <<>>
    ELSE LET first == CHOOSE r \in S : \A o \in S : key[r] <= key[o]
         IN <<first>> \o OrderBy(S \ {first}, key)

\* LIMIT n
Limit(rows, n) == IF Len(rows) <= n THEN rows ELSE SubSeq(rows, 1, n)

MaxFaqId == FreeRows + TailRows

\* SELECT ... FROM Users WHERE user_name = ?   (.first(): a row or none)
SelectUserByName(users, name) == {u \in users : u.user_name = name}

\* SELECT ... FROM Users WHERE user_id = ?
SelectUserById(users, id) == {u \in users : u.user_id = SqlInteger(id)}

\* the id-based read without its "AND user_id = ?"
SelectFaqsByIdsAnyUser(table, ids, owner) ==
    LET S == {r \in table : r.faq_id \in ids}
    IN OrderBy(S, [r \in S |-> r.faq_id])

\* the id-based read with ORDER BY faq_id DESC
SelectFaqsByIdsDescending(table, ids, owner) ==
    LET S == {r \in table : r.faq_id \in ids /\ r.user_id = SqlInteger(owner)}
    IN OrderBy(S, [r \in S |-> MaxFaqId - r.faq_id])

\* SELECT ... FROM FAQs WHERE faq_id IN (...) AND user_id = ? ORDER BY faq_id
SelectFaqsByIds(table, ids, owner) ==
    LET S == {r \in table : r.faq_id \in ids /\ r.user_id = SqlInteger(owner)}
    IN OrderBy(S, [r \in S |-> r.faq_id])

\* the order SQLite gives rows of equal created_at is not specified
TieBreaks == {"rowid ascending", "rowid descending"}

\* the recency read without its LIMIT 5
SelectRecentFaqsUnlimited(table, owner, tie) ==
    LET S == {r \in table : r.user_id = SqlInteger(owner)}
        K == MaxFaqId + 1
        key == [r \in S |->
                  (CreatedAt(MaxFaqId) - r.created_at) * K
                  + (IF tie = "rowid ascending" THEN r.faq_id ELSE K - r.faq_id)]
    IN OrderBy(S, key)

\* SELECT ... FROM FAQs WHERE user_id = ? ORDER BY created_at DESC LIMIT 5
SelectRecentFaqs(table, owner, tie) ==
    LET S == {r \in table : r.user_id = SqlInteger(owner)}
        K == MaxFaqId + 1
        key == [r \in S |->
                  (CreatedAt(MaxFaqId) - r.created_at) * K
                  + (IF tie = "rowid ascending" THEN r.faq_id ELSE K - r.faq_id)]
    IN Limit(OrderBy(S, key), MaxContext)

(***************************************************************************)
(* Requests and responses                                                  *)
(***************************************************************************)
\* query parameters of GET /api/chatbot; caller is the user_id the request
\* is authenticated as (0: anonymous), which the handler never reads.
\* username is only tested for presence and compared with user_name, so it
\* is a plain string, "" when the parameter is absent
Requests ==
    [text     : {Undefined, Str(<<" ">>)},
     question : {Undefined, Str(<<>>), Str(Hi)},
     userId   : {Undefined, Str(<<"1">>), Str(<<"9">>)},
     username : {"", "alice", "zed"},
     debug    : {Undefined, Str(<<"t", "r", "u", "e">>)},
     caller   : {0, 1}]

NoRequest ==
    [text |-> Undefined, question |-> Undefined, userId |-> Undefined,
     username |-> "", debug |-> Undefined, caller |-> 0]

NoProfile == [present |-> FALSE, name |-> <<>>, username |-> "", bio |-> ""]

NoDebug ==
    [present |-> FALSE, vectorizeMatches |-> 0, matchingFaqIds |-> <<>>,
     faqsRetrieved |-> 0, chatbotOwnerId |-> Undefined, chatbotOwnerUsername |-> ""]

\* status 0: the handler has not returned yet
NoResponse ==
    [status |-> 0, error |-> "", step |-> "", answer |-> "",
     contextUsed |-> FALSE, faqsUsed |-> 0, debug |-> NoDebug]

\* c.json({ error, step }, status)
ErrorResponse(status, error, step) ==
    [NoResponse EXCEPT !.status = status, !.error = error, !.step = step]

NoVectorQuery == [matches |-> <<>>]

\* a call of a gateway (D1, Workers AI, Vectorize) and how it came back
Call(op, out) == [op |-> op, out |-> out]

\* the POST /api/users requests of the model
Clients == 1..MaxClients

\* a request of handleCreateUser that has not arrived yet; its fields are
\* the body's email and username, user.username as the handler sets it,
\* tempUsername and attempts of the loop, and the status returned
IdleClient ==
    [at |-> "idle", email |-> <<>>, posted |-> "", username |-> "",
     tempUsername |-> "", attempts |-> 0, status |-> 0]

IdleClients == [c \in Clients |-> IdleClient]

\* no DELETE /api/faqs/:id request is in progress; the fields are the id
\* parameter, the body's userId, the response, and whether deleteByIds
\* came back without throwing
NotDeleting ==
    [at |-> "idle", faqId |-> <<>>, userId |-> Undefined, status |-> 0,
     error |-> "", deletedFromD1 |-> FALSE, vectorDeleted |-> FALSE]

\* no PUT /api/faqs/:id request is in progress; the fields are the id
\* parameter, the body's userId, question and answer (one text stands for
\* both), the response, and whether the handler's UPDATE changed a row and
\* its upsert wrote a point
NotUpdating ==
    [at |-> "idle", faqId |-> <<>>, userId |-> Undefined, text |-> <<>>,
     status |-> 0, error |-> "", rowWritten |-> FALSE, pointWritten |-> FALSE]

\* no FAQWorkflow instance is running; the fields are the payload's userId
\* and text, the faq_id of the record of step 1, the instance's status, and
\* the number of rows inserted so far (the AUTOINCREMENT sequence)
NoWorkflow ==
    [at |-> "idle", userId |-> Undefined, text |-> <<>>, record |-> 0,
     status |-> "none", inserted |-> 0]

\* no retrain request is in progress; results are the rows read, faq the
\* position of the loop over them
NotRetraining ==
    [at |-> "idle", results |-> <<>>, faq |-> 1, retrainedCount |-> 0,
     failedCount |-> 0, status |-> 0]

\* createMutation has not been started; attempt of the loop of
\* waitForWorkflowCompletion, the number of status polls made and of "404"
\* errors among them, the workflowStep shown, the state the last status
\* response reported, and the toast shown
NotPolling ==
    [at |-> "idle", attempt |-> 0, polls |-> 0, notFound |-> 0,
     step |-> "none", state |-> "none", toast |-> "none"]

\* the mutations of useFAQs of the model
Mutations == 1..MaxMutations

\* getQueryData before the query has data: undefined
NoSnapshot == [loaded |-> FALSE, items |-> <<>>]

\* a mutation that has not been started; kind is create, update or delete,
\* id the FAQ it is about, previous the snapshot onMutate returned
NoMutation ==
    [at |-> "idle", kind |-> "none", id |-> <<>>, previous |-> NoSnapshot]

NoMutations == [m \in Mutations |-> NoMutation]

\* the query ['faqs', userId] before it has data: the list, whether a
\* fetch is in flight, whether a fetch has replaced the list since the
\* mutations began, and the list as it was when the first of the
\* mutations in progress began
EmptyCache ==
    [loaded |-> FALSE, items |-> <<>>, fetching |-> FALSE,
     refetched |-> FALSE, first |-> NoSnapshot]

\* nothing is remembered of an earlier request
NoPrevious ==
    [phase |-> "first", req |-> NoRequest, calls |-> <<>>, built |-> FALSE,
     matches |-> <<>>, ids |-> <<>>, faqs |-> <<>>, ties |-> TieBreaks,
     status |-> 0, contextUsed |-> FALSE, faqsUsed |-> 0]

(***************************************************************************)
(* Synchronous pieces of handleChatbotQuery                                *)
(***************************************************************************)
\* c.req.query('text') || c.req.query('question') || ''
QuestionOf(r) == OrElse(OrElse(r.text, r.question), Str(<<>>)).s

\* the emptiness test without trim()
IsBlankUntrimmed(q) == q = <<>>

\* !question.trim()
IsBlank(q) == Trim(q) = <<>>

\* `${first_name} ${last_name}`.trim(), [first_name, last_name].filter(Boolean).join(' ')
\* both give the non-empty names in order; a name is its sequence of words
JoinNames(first, last) == SelectSeq(<<first, last>>, LAMBDA w : w # "")

\* dbUserToUser(dbUser).name: the full name, or the local part of the email
FullName(u) ==
    LET full == JoinNames(u.first_name, u.last_name)
    IN IF full = <<>> THEN <<u.email[1]>> ELSE full

\* the profile built from getUserByUsername's User
ProfileOfUser(u) ==
    [present |-> TRUE, name |-> FullName(u), username |-> u.user_name,
     bio |-> u.user_bio]

\* the profile built from the Users row selected by user_id
ProfileOfRow(u) ==
    LET full == JoinNames(u.first_name, u.last_name)
    IN [present |-> TRUE, name |-> IF full = <<>> THEN <<u.user_name>> ELSE full,
        username |-> u.user_name, bio |-> u.user_bio]

\* what AI.run('@cf/baai/bge-base-en-v1.5') can come back with
EmbeddingOutcomes == {"throws", "request_id", "no data", "data empty", "data"}

\* Step 1 without the check for an asynchronous response
EmbeddingVectorsAsyncAccepted(out) ==
    IF out \in {"data", "request_id"} THEN "vector" ELSE "null"

\* vectors after Step 1 ("vector"), or null when the handler gives up
EmbeddingVectors(out) == IF out = "data" THEN "vector" ELSE "null"

\* metadata?.userId of a match
MetaUserIds == {Undefined, Str(<<"1">>), Str(<<"2">>)}

\* ids of the points the index may hold: decimal strings of faq ids
PointIds == {NumToString(i) : i \in FreeIds}

Matches == [id : PointIds, userId : MetaUserIds]

\* results of VECTOR_INDEX.query: up to topK matches, best score first,
\* no point twice
MatchLists ==
    UNION { {m \in [1..k -> Matches] :
                \A i, j \in 1..k : i # j => m[i].id # m[j].id} :
            k \in 0..(IF MaxMatches < TopK THEN MaxMatches ELSE TopK) }

\* the predicate of .filter(): metadata?.userId?.toString() === ownerId?.toString()
SameUser(match, ownerId) == ToStringOpt(match.userId) = ToStringOpt(ownerId)

\* Step 2.5 with slice(0, 5) applied before the filter
FilterMatchesSliceFirst(matches, ownerId) ==
    LET top == Limit(matches, MaxContext)
        kept == SelectSeq(top, LAMBDA m : SameUser(m, ownerId))
    IN [i \in 1..Len(kept) |-> kept[i].id]

\* Step 2.5: filter by userId, slice(0, 5), map to ids
FilterMatches(matches, ownerId) ==
    LET kept == SelectSeq(matches, LAMBDA m : SameUser(m, ownerId))
        top == Limit(kept, MaxContext)
    IN [i \in 1..Len(top) |-> top[i].id]

\* matchingFaqIds.map(id => parseInt(id, 10))
FaqIdNumbers(ids) == {ParseInt(ids[i]) : i \in 1..Len(ids)}

\* Steps 4-6 with the knowledge-base system prompt whatever was retrieved
MessagesAlwaysKnowledgeBase(rows, profile, q) ==
    LET systemPrompt ==
            [role |-> "system", kind |-> "knowledge base",
             name |-> IF profile.name # <<>> THEN profile.name ELSE <<"the owner">>,
             bio |-> profile.bio, faqs |-> <<>>, text |-> <<>>]
        context ==
            [role |-> "system", kind |-> "context", name |-> <<>>, bio |-> "",
             faqs |-> [i \in 1..Len(rows) |-> rows[i].faq_id], text |-> <<>>]
        user ==
            [role |-> "user", kind |-> "question", name |-> <<>>, bio |-> "",
             faqs |-> <<>>, text |-> q]
    IN <<systemPrompt>> \o (IF Len(rows) > 0 THEN <<context>> ELSE <<>>) \o <<user>>

\* Steps 4-6 with the context message pushed without the test of line 265
MessagesAlwaysContext(rows, profile, q) ==
    LET systemPrompt ==
            [role |-> "system",
             kind |-> IF Len(rows) > 0 THEN "knowledge base" ELSE "no information",
             name |-> IF profile.name # <<>> THEN profile.name ELSE <<"the owner">>,
             bio |-> profile.bio, faqs |-> <<>>, text |-> <<>>]
        context ==
            [role |-> "system", kind |-> "context", name |-> <<>>, bio |-> "",
             faqs |-> [i \in 1..Len(rows) |-> rows[i].faq_id], text |-> <<>>]
        user ==
            [role |-> "user", kind |-> "question", name |-> <<>>, bio |-> "",
             faqs |-> <<>>, text |-> q]
    IN <<systemPrompt, context, user>>

\* Steps 4-6: messages = [system prompt, context (if any), user question]
Messages(rows, profile, q) ==
    LET systemPrompt ==
            [role |-> "system",
             kind |-> IF Len(rows) > 0 THEN "knowledge base" ELSE "no information",
             name |-> IF profile.name # <<>> THEN profile.name ELSE <<"the owner">>,
             bio |-> profile.bio, faqs |-> <<>>, text |-> <<>>]
        context ==
            [role |-> "system", kind |-> "context", name |-> <<>>, bio |-> "",
             faqs |-> [i \in 1..Len(rows) |-> rows[i].faq_id], text |-> <<>>]
        user ==
            [role |-> "user", kind |-> "question", name |-> <<>>, bio |-> "",
             faqs |-> <<>>, text |-> q]
    IN <<systemPrompt>> \o (IF Len(rows) > 0 THEN <<context>> ELSE <<>>) \o <<user>>

\* what AI.run('@cf/meta/llama-3-8b-instruct') can come back with
LlmOutcomes == {"throws", "no response", "response"}

Apology == "I'm sorry, I encountered an error while processing your question. Please try again later."
NoAnswer == "I apologize, but I could not generate a response."

\* the answer without the default for a missing llmResponse.response
LlmAnswerNoDefault(out) ==
    IF out = "throws" THEN Apology
    ELSE IF out = "response" THEN "generated answer"
    ELSE ""

\* llmResponse.response || '...', or the catch block's string
LlmAnswer(out) ==
    IF out = "throws" THEN Apology
    ELSE IF out = "response" THEN "generated answer"
    ELSE NoAnswer

\* c.req.query('debug') === 'true'
DebugRequested(r) == r.debug = Str(<<"t", "r", "u", "e">>)

\* the response body counting the matching ids instead of the entries
AnswerResponseCountsIds(r, answer, rows, matches, ids, ownerId, profile) ==
    [NoResponse EXCEPT
        !.status = 200,
        !.answer = answer,
        !.contextUsed = Len(ids) > 0,
        !.faqsUsed = Len(ids),
        !.debug = NoDebug]

\* the JSON body returned with status 200
AnswerResponse(r, answer, rows, matches, ids, ownerId, profile) ==
    [NoResponse EXCEPT
        !.status = 200,
        !.answer = answer,
        !.contextUsed = Len(rows) > 0,
        !.faqsUsed = Len(rows),
        !.debug = IF DebugRequested(r)
                  THEN [present |-> TRUE, vectorizeMatches |-> Len(matches),
                        matchingFaqIds |-> ids, faqsRetrieved |-> Len(rows),
                        chatbotOwnerId |-> ToStringOpt(ownerId),
                        chatbotOwnerUsername |-> profile.username]
                  ELSE NoDebug]


\* the values the handler's local variables are declared with
Declared ==
    [question |-> <<>>, chatbotOwnerId |-> Null, chatbotOwnerProfile |-> NoProfile,
     vectorQuery |-> NoVectorQuery, matchingFaqIds |-> <<>>, faqs |-> <<>>,
     messages |-> <<>>]

(***************************************************************************)
(* Initial state: a store, and no request in progress                      *)
(***************************************************************************)
Init ==
    /\ Users = UserRows
    /\ FAQs \in FaqTables
    /\ pc = "idle"
    /\ req = NoRequest
    /\ question = Declared.question
    /\ chatbotOwnerId = Declared.chatbotOwnerId
    /\ chatbotOwnerProfile = Declared.chatbotOwnerProfile
    /\ vectorQuery = Declared.vectorQuery
    /\ matchingFaqIds = Declared.matchingFaqIds
    /\ faqs = Declared.faqs
    /\ messages = Declared.messages
    /\ response = NoResponse
    /\ calls = <<>>
    /\ previous = NoPrevious
    /\ Vectors = {}
    /\ creating = IdleClients
    /\ deleting = NotDeleting
    /\ updating = NotUpdating
    /\ workflow = NoWorkflow
    /\ retraining = NotRetraining
    /\ polling = NotPolling
    /\ cache = EmptyCache
    /\ mutations = NoMutations
    /\ started = 0

\* the handler returns resp: nothing is awaited any more and its local
\* variables are gone; the request, the calls made and the response remain
Return(resp) ==
    /\ response' = resp
    /\ pc' = "done"
    /\ question' = Declared.question
    /\ chatbotOwnerId' = Declared.chatbotOwnerId
    /\ chatbotOwnerProfile' = Declared.chatbotOwnerProfile
    /\ vectorQuery' = Declared.vectorQuery
    /\ matchingFaqIds' = Declared.matchingFaqIds
    /\ faqs' = Declared.faqs
    /\ messages' = Declared.messages

\* Steps 0-1 go on to await the call named by next, the owner known so far
Continue(next, q, ownerId, profile) ==
    /\ pc' = next
    /\ question' = q
    /\ chatbotOwnerId' = ownerId
    /\ chatbotOwnerProfile' = profile
    /\ UNCHANGED <<vectorQuery, matchingFaqIds, faqs, messages, response>>

\* if (!chatbotOwnerId) return 400, else go on to Step 1
RequireOwner(q, ownerId, profile) ==
    IF ~Truthy(ownerId)
    THEN Return(ErrorResponse(400, "userId or username is required", ""))
    ELSE Continue("embedding", q, ownerId, profile)

(***************************************************************************)
(* handleChatbotQuery, one action per awaited call                         *)
(***************************************************************************)
\* A request arrives: the parameters are read, the question is checked and
\* the owner lookup to make, if any, is chosen.
Receive(r) ==
    /\ pc = "idle"
    /\ req' = r
    /\ UNCHANGED <<rest, Users, FAQs, calls>>
    /\ LET q == QuestionOf(r)
           ownerId == OrElse(r.userId, Null)
       IN IF IsBlank(q)
          THEN Return(ErrorResponse(400, "Question is required", ""))
          ELSE IF ~Truthy(ownerId) /\ r.username # ""
          THEN Continue("getUserByUsername", q, ownerId, NoProfile)
          ELSE IF Truthy(ownerId) /\ r.username = ""
          THEN Continue("selectUser", q, ownerId, NoProfile)
          ELSE RequireOwner(q, ownerId, NoProfile)

\* await getUserByUsername(c.env.DB, chatbotOwnerUsername): a rejected D1
\* call is rethrown and reaches the handler's outer catch
GetUserByUsername(ok) ==
    /\ pc = "getUserByUsername"
    /\ calls' = Append(calls, Call("DB.Users by user_name", IF ok THEN "ok" ELSE "throws"))
    /\ UNCHANGED <<rest, Users, FAQs, req>>
    /\ LET found == SelectUserByName(Users, req.username) IN
       IF ~ok
       THEN Return(ErrorResponse(500, "Failed to process chatbot query", ""))
       ELSE IF found = {}
       THEN Return(ErrorResponse(404, "Chatbot owner not found", ""))
       ELSE LET u == CHOOSE x \in found : TRUE
            IN RequireOwner(question, OrElse(Num(u.user_id), Null), ProfileOfUser(u))

\* await userStmt.first(): the profile of the owner given by userId, if any
SelectUser(ok) ==
    /\ pc = "selectUser"
    /\ calls' = Append(calls, Call("DB.Users by user_id", IF ok THEN "ok" ELSE "throws"))
    /\ UNCHANGED <<rest, Users, FAQs, req>>
    /\ LET found == SelectUserById(Users, chatbotOwnerId) IN
       IF ~ok
       THEN Return(ErrorResponse(500, "Failed to process chatbot query", ""))
       ELSE RequireOwner(question, chatbotOwnerId,
                         IF found = {} THEN NoProfile
                         ELSE ProfileOfRow(CHOOSE x \in found : TRUE))

\* Step 1 with a failed embedding call left to be made again
GenerateEmbeddingRetried(out) ==
    /\ pc = "embedding"
    /\ calls' = Append(calls, Call("AI.embedding", out))
    /\ UNCHANGED <<rest, Users, FAQs, req>>
    /\ IF EmbeddingVectors(out) = "null"
       THEN Continue("embedding", question, chatbotOwnerId, chatbotOwnerProfile)
       ELSE Continue("vectorize", question, chatbotOwnerId, chatbotOwnerProfile)

\* Step 1, await c.env.AI.run(embedding model, { text: question })
GenerateEmbedding(out) ==
    /\ pc = "embedding"
    /\ calls' = Append(calls, Call("AI.embedding", out))
    /\ UNCHANGED <<rest, Users, FAQs, req>>
    /\ IF EmbeddingVectors(out) = "null"
       THEN Return(ErrorResponse(500, "Failed to generate embedding", "embedding_generation"))
       ELSE Continue("vectorize", question, chatbotOwnerId, chatbotOwnerProfile)

\* Steps 2 and 2.5 without the try/catch around the query: the throw
\* reaches the handler's outer catch
QueryVectorizeUncaught(ok, found) ==
    /\ pc = "vectorize"
    /\ ok \/ found = <<>>
    /\ calls' = Append(calls, Call("VECTOR_INDEX.query", IF ok THEN "ok" ELSE "throws"))
    /\ UNCHANGED <<rest, Users, FAQs, req>>
    /\ IF ok
       THEN /\ vectorQuery' = [matches |-> found]
            /\ matchingFaqIds' = FilterMatches(found, chatbotOwnerId)
            /\ pc' = IF Len(matchingFaqIds') > 0 THEN "selectByIds" ELSE "selectRecent"
            /\ UNCHANGED <<question, chatbotOwnerId, chatbotOwnerProfile, faqs,
                           messages, response>>
       ELSE Return(ErrorResponse(500, "Failed to process chatbot query", ""))

\* Steps 2 and 2.5, await c.env.VECTOR_INDEX.query(vectors, { topK: 10 }):
\* a throw (ok false, nothing found) is caught and leaves { matches: [] };
\* then the tenant filter
QueryVectorize(ok, found) ==
    /\ pc = "vectorize"
    /\ ok \/ found = <<>>
    /\ calls' = Append(calls, Call("VECTOR_INDEX.query", IF ok THEN "ok" ELSE "throws"))
    /\ vectorQuery' = [matches |-> IF ok THEN found ELSE <<>>]
    /\ matchingFaqIds' = FilterMatches(vectorQuery'.matches, chatbotOwnerId)
    /\ pc' = IF Len(matchingFaqIds') > 0 THEN "selectByIds" ELSE "selectRecent"
    /\ UNCHANGED <<rest, Users, FAQs, req, question, chatbotOwnerId, chatbotOwnerProfile,
                   faqs, messages, response>>

\* Step 3 going on to the recency read when the id-based read gave no row
SelectByIdsThenRecent(ok) ==
    /\ pc = "selectByIds"
    /\ calls' = Append(calls, Call("DB.FAQs by ids", IF ok THEN "ok" ELSE "throws"))
    /\ faqs' = IF ok
               THEN SelectFaqsByIds(FAQs, FaqIdNumbers(matchingFaqIds), chatbotOwnerId)
               ELSE <<>>
    /\ messages' = IF faqs' = <<>> THEN messages
                   ELSE Messages(faqs', chatbotOwnerProfile, question)
    /\ pc' = IF faqs' = <<>> THEN "selectRecent" ELSE "llm"
    /\ UNCHANGED <<rest, Users, FAQs, req, question, chatbotOwnerId, chatbotOwnerProfile,
                   vectorQuery, matchingFaqIds, response>>

\* Step 3, await stmt.all() of the id-based read; Steps 4-6 up to the LLM call
SelectByIds(ok) ==
    /\ pc = "selectByIds"
    /\ calls' = Append(calls, Call("DB.FAQs by ids", IF ok THEN "ok" ELSE "throws"))
    /\ faqs' = IF ok
               THEN SelectFaqsByIds(FAQs, FaqIdNumbers(matchingFaqIds), chatbotOwnerId)
               ELSE <<>>
    /\ messages' = Messages(faqs', chatbotOwnerProfile, question)
    /\ pc' = "llm"
    /\ UNCHANGED <<rest, Users, FAQs, req, question, chatbotOwnerId, chatbotOwnerProfile,
                   vectorQuery, matchingFaqIds, response>>

\* Step 3 fallback with rows of equal created_at in an order drawn anew by
\* every call (ORDER BY created_at DESC, RANDOM())
SelectRecentAnyOrder(ok, tie) ==
    /\ pc = "selectRecent"
    /\ calls' = Append(calls, Call("DB.FAQs recent", IF ok THEN "ok" ELSE "throws"))
    /\ \E drawn \in TieBreaks :
          faqs' = IF ok THEN SelectRecentFaqs(FAQs, chatbotOwnerId, drawn) ELSE <<>>
    /\ messages' = Messages(faqs', chatbotOwnerProfile, question)
    /\ pc' = "llm"
    /\ UNCHANGED <<rest, Users, FAQs, req, question, chatbotOwnerId, chatbotOwnerProfile,
                   vectorQuery, matchingFaqIds, response>>

\* Step 3 fallback, await fallbackStmt.all(); Steps 4-6 up to the LLM call
SelectRecent(ok, tie) ==
    /\ pc = "selectRecent"
    /\ calls' = Append(calls, Call("DB.FAQs recent", IF ok THEN "ok" ELSE "throws"))
    /\ faqs' = IF ok THEN SelectRecentFaqs(FAQs, chatbotOwnerId, tie) ELSE <<>>
    /\ messages' = Messages(faqs', chatbotOwnerProfile, question)
    /\ pc' = "llm"
    /\ UNCHANGED <<rest, Users, FAQs, req, question, chatbotOwnerId, chatbotOwnerProfile,
                   vectorQuery, matchingFaqIds, response>>

\* Step 6, await c.env.AI.run(LLM, { messages }), and the response
GenerateAnswer(out) ==
    /\ pc = "llm"
    /\ calls' = Append(calls, Call("AI.llm", out))
    /\ Return(AnswerResponse(req, LlmAnswer(out), faqs, vectorQuery.matches,
                             matchingFaqIds, chatbotOwnerId, chatbotOwnerProfile))
    /\ UNCHANGED <<rest, Users, FAQs, req>>

\* The response has been sent: the request's context is dropped.
Complete ==
    /\ pc = "done"
    /\ pc' = "idle"
    /\ req' = NoRequest
    /\ response' = NoResponse
    /\ calls' = <<>>
    /\ UNCHANGED <<rest, Users, FAQs, question, chatbotOwnerId, chatbotOwnerProfile,
                   vectorQuery, matchingFaqIds, faqs, messages>>

Next ==
    \/ \E r \in Requests : Receive(r)
    \/ \E ok \in BOOLEAN : GetUserByUsername(ok)
    \/ \E ok \in BOOLEAN : SelectUser(ok)
    \/ \E out \in EmbeddingOutcomes : GenerateEmbedding(out)
    \/ \E ok \in BOOLEAN, found \in MatchLists : QueryVectorize(ok, found)
    \/ \E ok \in BOOLEAN : SelectByIds(ok)
    \/ \E ok \in BOOLEAN, tie \in TieBreaks : SelectRecent(ok, tie)
    \/ \E out \in LlmOutcomes : GenerateAnswer(out)
    \/ Complete

Spec == Init /\ [][Next]_vars


(***************************************************************************)
(* Vocabulary of the properties                                            *)
(***************************************************************************)
\* the handler has returned
Done == pc = "done"

\* the handler has returned the answer body (status 200)
Answered == Done /\ response.status = 200

\* the entries are retrieved and composed into messages; the LLM call, the
\* only step left before the answer, is pending
ContextBuilt == pc = "llm"

HasCall(op, out) == \E i \in 1..Len(calls) : calls[i] = Call(op, out)

Called(op) == \E i \in 1..Len(calls) : calls[i].op = op

\* every gateway call made so far came back with a usable result
NoCallFailed ==
    \A i \in 1..Len(calls) : calls[i].out \in {"ok", "data", "response", "no response"}

\* the embedding call was made and gave no vector
EmbeddingFailed ==
    \E i \in 1..Len(calls) : calls[i].op = "AI.embedding" /\ calls[i].out # "data"

\* a text with no character other than whitespace
AllWhitespace(chars) == \A i \in 1..Len(chars) : IsSpace(chars[i])

\* the request has a question and names a tenant
ValidRequest ==
    /\ pc # "idle"
    /\ ~AllWhitespace(QuestionOf(req))
    /\ Truthy(req.userId) \/ req.username # ""

\* the Users rows of the tenant the request names (userId first, as the
\* handler takes it), as the store has them
NamedUsers ==
    IF Truthy(req.userId) THEN SelectUserById(Users, req.userId)
    ELSE SelectUserByName(Users, req.username)

\* FAQ rows of the tenant the request names
TenantRows == {r \in FAQs : \E u \in NamedUsers : r.user_id = u.user_id}

\* FAQ rows of the resolved chatbot owner
OwnerRows == {r \in FAQs : r.user_id = SqlInteger(chatbotOwnerId)}

\* the store rows with a faq id
RowsWithId(id) == {r \in FAQs : r.faq_id = id}

\* position of a faq id in the tenant-filtered id list (0: not in it)
RankOf(id) ==
    IF \E i \in 1..Len(matchingFaqIds) : ParseInt(matchingFaqIds[i]) = id
    THEN CHOOSE i \in 1..Len(matchingFaqIds) : ParseInt(matchingFaqIds[i]) = id
    ELSE 0

\* entries were read by id (semantic path) / by recency (fallback path)
ReadByIds == Called("DB.FAQs by ids")
ReadRecent == Called("DB.FAQs recent")

Min(a, b) == IF a <= b THEN a ELSE b

\* rows is a newest-first listing of the n most recently created rows of S
MostRecentOf(rows, S, n) ==
    /\ Len(rows) = Min(n, Cardinality(S))
    /\ \A i \in 1..Len(rows) : rows[i] \in S
    /\ \A i, j \in 1..Len(rows) : i < j =>
          rows[i] # rows[j] /\ rows[i].created_at >= rows[j].created_at
    /\ \A r \in S : (\A i \in 1..Len(rows) : rows[i] # r) =>
          \A i \in 1..Len(rows) : rows[i].created_at >= r.created_at

(***************************************************************************)
(* C1: in every request that returns an answer, every FAQ row placed in    *)
(* the context belongs to the resolved chatbot owner, whatever the vector  *)
(* index returned (other tenants' matches, wrong or missing userId         *)
(* metadata, ids whose store rows are another tenant's).                   *)
(***************************************************************************)
ContextRowsBelongToOwner ==
    /\ Answered => HasCall("AI.llm", "throws") \/ HasCall("AI.llm", "response")
                     \/ HasCall("AI.llm", "no response")
    /\ Called("AI.llm") => Answered
    /\ \A i \in 1..Len(faqs) : faqs[i].user_id = SqlInteger(chatbotOwnerId)
    /\ \A k \in 1..Len(messages) : \A i \in 1..Len(messages[k].faqs) :
          /\ \E j \in 1..Len(faqs) : faqs[j].faq_id = messages[k].faqs[i]
          /\ \A r \in RowsWithId(messages[k].faqs[i]) :
                r.user_id = SqlInteger(chatbotOwnerId)

\* a context was built after the index returned a match that carries the
\* owner's userId in its metadata but whose store row is another tenant's
WrongMetadataInContext ==
    /\ ContextBuilt
    /\ Len(faqs) > 0
    /\ \E i \in 1..Len(vectorQuery.matches) :
          /\ SameUser(vectorQuery.matches[i], chatbotOwnerId)
          /\ \E r \in RowsWithId(ParseInt(vectorQuery.matches[i].id)) :
                r.user_id # SqlInteger(chatbotOwnerId)

StaleIndexKeepsContext ==
    /\ ValidRequest
    /\ Answered
    /\ HasCall("VECTOR_INDEX.query", "ok")
    /\ ~HasCall("DB.FAQs recent", "throws")
    /\ TenantRows # {}
    => response.contextUsed /\ response.faqsUsed > 0

(***************************************************************************)
(* C4 as stated: entries retrieved semantically appear in the vector       *)
(* search's similarity order, highest similarity first.                    *)
(***************************************************************************)
SemanticOrderKept ==
    ContextBuilt /\ ReadByIds =>
        \A i, j \in 1..Len(faqs) : i < j =>
            RankOf(faqs[i].faq_id) < RankOf(faqs[j].faq_id)

(***************************************************************************)
(* C4 amended: entries retrieved semantically appear in ascending faq_id   *)
(* order (the id-based read's ORDER BY faq_id), whatever their similarity  *)
(* order; they are the owner's existing rows among the filtered ids.       *)
(***************************************************************************)
SemanticEntriesInFaqIdOrder ==
    ContextBuilt /\ HasCall("DB.FAQs by ids", "ok") =>
        /\ \A i, j \in 1..Len(faqs) : i < j => faqs[i].faq_id < faqs[j].faq_id
        /\ {faqs[i] : i \in 1..Len(faqs)} =
              {r \in OwnerRows : RankOf(r.faq_id) > 0}

\* two entries were retrieved whose similarity order is the reverse of
\* their faq_id order
SemanticOrderReversed ==
    /\ ContextBuilt
    /\ HasCall("DB.FAQs by ids", "ok")
    /\ Len(faqs) >= 2
    /\ RankOf(faqs[1].faq_id) > RankOf(faqs[2].faq_id)

(***************************************************************************)
(* C5 as stated: whenever tenant filtering leaves zero ids, the retrieved  *)
(* entries are exactly the owner's most recently created FAQs, newest      *)
(* first, bounded to 5.                                                    *)
(***************************************************************************)
FallbackAlwaysMostRecent ==
    ContextBuilt /\ matchingFaqIds = <<>> => MostRecentOf(faqs, OwnerRows, MaxContext)

(***************************************************************************)
(* C5 amended: whenever tenant filtering leaves zero ids, the recency read *)
(* is made and, when it succeeds, the retrieved entries are exactly the    *)
(* owner's most recently created FAQs, newest first, bounded to 5; when    *)
(* that read throws, the entry list is empty.                              *)
(***************************************************************************)
FallbackMostRecentIfRead ==
    ContextBuilt /\ matchingFaqIds = <<>> =>
        /\ ReadRecent /\ ~ReadByIds
        /\ HasCall("DB.FAQs recent", "ok") => MostRecentOf(faqs, OwnerRows, MaxContext)
        /\ HasCall("DB.FAQs recent", "throws") => faqs = <<>>

\* every match was another tenant's, and the owner has more rows than fit
FallbackTruncated ==
    /\ ContextBuilt
    /\ matchingFaqIds = <<>>
    /\ Len(vectorQuery.matches) > 0
    /\ HasCall("DB.FAQs recent", "ok")
    /\ Cardinality(OwnerRows) > MaxContext
    /\ Len(faqs) = MaxContext

(***************************************************************************)
(* C6: when the vector index query throws, the handler treats the result   *)
(* as an empty candidate list, goes on to the recency read and does not    *)
(* propagate the error: the response is an answer.                         *)
(***************************************************************************)
VectorFailureFallsBack ==
    HasCall("VECTOR_INDEX.query", "throws") =>
        /\ pc \in {"selectRecent", "llm", "done"}
        /\ ~Done => vectorQuery.matches = <<>> /\ matchingFaqIds = <<>>
        /\ pc \in {"llm", "done"} => ReadRecent /\ ~ReadByIds
        /\ Done => response.status = 200 /\ Called("AI.llm")

\* the query threw and the answer still used the tenant's recent entries
VectorFailureAnsweredWithContext ==
    /\ Answered
    /\ HasCall("VECTOR_INDEX.query", "throws")
    /\ response.contextUsed

(***************************************************************************)
(* C7: a request whose question is empty or whitespace-only, or that       *)
(* carries neither a userId nor a username, gets a 400 response, and no    *)
(* call to the database, the embedding model, the vector index or the LLM  *)
(* is made for it.                                                         *)
(***************************************************************************)
BadRequestRejectedWithoutCalls ==
    /\ pc # "idle"
    /\ AllWhitespace(QuestionOf(req)) \/ (~Truthy(req.userId) /\ req.username = "")
    => Done /\ response.status = 400 /\ calls = <<>>

\* a whitespace-only text parameter, with everything else a valid request has
WhitespaceQuestionRejected ==
    /\ Done
    /\ req.text = Str(<<" ">>)
    /\ req.question = Str(Hi)
    /\ req.username = "alice"
    /\ response.status = 400

(***************************************************************************)
(* C8 as stated: a request whose tenant cannot be resolved gets a 404      *)
(* response, both for a username and for a userId that match no user; an   *)
(* unknown tenant never gets the success response.  (Stated for requests   *)
(* that name the tenant by exactly one of the two parameters.)             *)
(***************************************************************************)
UnknownTenantNotFound ==
    /\ ValidRequest
    /\ Truthy(req.userId) # (req.username # "")
    /\ Done
    /\ NoCallFailed
    /\ NamedUsers = {}
    => response.status = 404

(***************************************************************************)
(* C9 as stated: the debug block is in a response only when the caller     *)
(* requested it and is the tenant owner.                                   *)
(***************************************************************************)
DebugOnlyForOwner ==
    response.debug.present =>
        /\ DebugRequested(req)
        /\ \E u \in NamedUsers : u.user_id = req.caller

(***************************************************************************)
(* C10: when the LLM call throws, the request still ends with a success    *)
(* response whose answer is the fixed apology string; and the answer of    *)
(* every success response is a non-empty string.                           *)
(***************************************************************************)
LlmFailureApologises ==
    /\ HasCall("AI.llm", "throws") =>
          Done /\ response.status = 200 /\ response.answer = Apology
    /\ response.status = 200 => response.answer # ""
    /\ response.status # 200 => response.answer = ""

\* the LLM call threw after a context had been retrieved
LlmThrewWithContext ==
    /\ Answered
    /\ HasCall("AI.llm", "throws")
    /\ response.contextUsed

MessageSequenceShape ==
    /\ ~ContextBuilt => messages = <<>>
    /\ ContextBuilt =>
          /\ Len(messages) = (IF Len(faqs) > 0 THEN 3 ELSE 2)
          /\ messages[1].role = "system"
          /\ messages[1].kind \in {"knowledge base", "no information"}
          /\ messages[Len(messages)].role = "user"
          /\ messages[Len(messages)].text = QuestionOf(req)
          /\ Len(faqs) > 0 =>
                /\ messages[2].role = "system" /\ messages[2].kind = "context"
                /\ messages[2].faqs = [i \in 1..Len(faqs) |-> faqs[i].faq_id]
          /\ \A k \in 1..Len(messages) :
                /\ messages[k].kind = "context" => k = 2 /\ messages[k].faqs # <<>>
                /\ messages[k].role = "user" => k = Len(messages)

\* three messages are ready for the LLM, the context one listing as many
\* entries as the handler ever retrieves
FullContextMessageBuilt ==
    /\ ContextBuilt
    /\ Len(messages) = 3
    /\ Len(messages[2].faqs) = MaxContext

\* two messages are ready for the LLM after a retrieval that found nothing
NoContextMessageBuilt ==
    /\ ContextBuilt
    /\ Len(messages) = 2
    /\ ReadByIds

\* the names a Users row may be displayed under: its first and last names,
\* or, when it has neither, its user_name or the local part of its email
DisplayNames(u) ==
    LET full == SelectSeq(<<u.first_name, u.last_name>>, LAMBDA w : w # "")
    IN IF full # <<>> THEN {full} ELSE {<<u.user_name>>, <<u.email[1]>>}

(***************************************************************************)
(* C13 as stated: for every request that names an existing tenant and      *)
(* reaches prompt composition, the system prompt carries that tenant's     *)
(* display name and, if the tenant has one, their bio, whether the tenant  *)
(* was named by username, by userId, or by both parameters together.       *)
(***************************************************************************)
PromptPersonalized ==
    ContextBuilt /\ NamedUsers # {} =>
        \E u \in NamedUsers :
            /\ messages[1].name \in DisplayNames(u)
            /\ messages[1].bio = u.user_bio

\* the same for requests that name the tenant by exactly one parameter
PromptPersonalizedBySingleIdentifier ==
    /\ ContextBuilt
    /\ NamedUsers # {}
    /\ Truthy(req.userId) # (req.username # "")
    => \E u \in NamedUsers :
            /\ messages[1].name \in DisplayNames(u)
            /\ messages[1].bio = u.user_bio

\* the pipeline stage a gateway call belongs to
StageOf(op) ==
    CASE op \in {"DB.Users by user_name", "DB.Users by user_id"} -> 1
      [] op = "AI.embedding" -> 2
      [] op = "VECTOR_INDEX.query" -> 3
      [] op \in {"DB.FAQs by ids", "DB.FAQs recent"} -> 4
      [] op = "AI.llm" -> 5

(***************************************************************************)
(* C14: within one request no stage is executed more than once and no      *)
(* earlier stage runs after a later one: the owner lookup, the embedding   *)
(* call, the vector query, the store read for entries and the LLM call     *)
(* each run at most once, in that order, whatever failures occur; and the  *)
(* call awaited next is always of a later stage than every call made.      *)
(***************************************************************************)
StagesRunOnceInOrder ==
    /\ \A i, j \in 1..Len(calls) : i < j => StageOf(calls[i].op) < StageOf(calls[j].op)
    /\ pc = "embedding" => \A i \in 1..Len(calls) : StageOf(calls[i].op) < 2
    /\ pc = "vectorize" => \A i \in 1..Len(calls) : StageOf(calls[i].op) < 3
    /\ pc \in {"selectByIds", "selectRecent"} =>
          \A i \in 1..Len(calls) : StageOf(calls[i].op) < 4
    /\ pc = "llm" => \A i \in 1..Len(calls) : StageOf(calls[i].op) < 5
    /\ pc \in {"getUserByUsername", "selectUser", "idle"} => calls = <<>>

\* a request went through every stage although the vector query, the store
\* read and the LLM call all failed
AllStagesRanDespiteFailures ==
    /\ Done
    /\ HasCall("VECTOR_INDEX.query", "throws")
    /\ HasCall("DB.FAQs recent", "throws")
    /\ HasCall("AI.llm", "throws")
    /\ Len(calls) = 5

RepeatRequests ==
    {r \in Requests : /\ r.text = Undefined /\ r.question = Str(Hi)
                      /\ r.debug = Undefined /\ r.caller = 0}

\* the gateway call awaited at a position of the handler
AwaitedOp(at) ==
    CASE at = "getUserByUsername" -> "DB.Users by user_name"
      [] at = "selectUser" -> "DB.Users by user_id"
      [] at = "embedding" -> "AI.embedding"
      [] at = "vectorize" -> "VECTOR_INDEX.query"
      [] at = "selectByIds" -> "DB.FAQs by ids"
      [] at = "selectRecent" -> "DB.FAQs recent"
      [] at = "llm" -> "AI.llm"
      [] OTHER -> "none"

\* the first request of a session arrives
AskFirst ==
    /\ previous.phase = "first"
    /\ \E r \in RepeatRequests : Receive(r)

\* the first request goes through its steps up to the composed messages
FirstRun ==
    /\ previous.phase = "first"
    /\ \/ \E ok \in BOOLEAN : GetUserByUsername(ok)
       \/ \E ok \in BOOLEAN : SelectUser(ok)
       \/ \E out \in EmbeddingOutcomes : GenerateEmbedding(out)
       \/ \E ok \in BOOLEAN, found \in MatchLists : QueryVectorize(ok, found)
       \/ \E ok \in BOOLEAN : SelectByIds(ok)
       \/ \E ok \in BOOLEAN, tie \in TieBreaks : SelectRecent(ok, tie)

\* what the first request retrieved is remembered: the index's matches, the
\* filtered ids, the entries, and the orders of equal created_at under
\* which the store returns these entries
Remember ==
    /\ pc = "llm"
    /\ previous.phase = "first"
    /\ previous' =
          [previous EXCEPT
              !.phase = "remembered", !.built = TRUE,
              !.matches = vectorQuery.matches, !.ids = matchingFaqIds,
              !.faqs = faqs,
              !.ties = IF HasCall("DB.FAQs recent", "ok")
                       THEN {tie \in TieBreaks :
                               SelectRecentFaqs(FAQs, chatbotOwnerId, tie) = faqs}
                       ELSE TieBreaks]
    /\ UNCHANGED <<Users, FAQs, pc, req, question, chatbotOwnerId, chatbotOwnerProfile,
                   vectorQuery, matchingFaqIds, faqs, messages, response, calls,
                   Vectors, creating, deleting, later, started>>

\* the first request's LLM call and response
FirstAnswer ==
    /\ previous.phase = "remembered"
    /\ \E out \in LlmOutcomes : GenerateAnswer(out)

\* the first response is remembered, with the request and its calls
RememberResponse ==
    /\ pc = "done"
    /\ previous.phase \in {"first", "remembered"}
    /\ previous' =
          [previous EXCEPT
              !.phase = "answered", !.req = req, !.calls = calls,
              !.status = response.status, !.contextUsed = response.contextUsed,
              !.faqsUsed = response.faqsUsed]
    /\ UNCHANGED <<Users, FAQs, pc, req, question, chatbotOwnerId, chatbotOwnerProfile,
                   vectorQuery, matchingFaqIds, faqs, messages, response, calls,
                   Vectors, creating, deleting, later, started>>

\* the response has been sent
Sent ==
    /\ previous.phase = "answered"
    /\ Complete

\* the identical request arrives again
AskAgain ==
    /\ previous.phase = "answered"
    /\ Receive(previous.req)

\* the repeated request goes through its steps, every gateway returning
\* what it returned to the first request
SecondRun ==
    /\ previous.phase = "answered"
    /\ Len(calls) < Len(previous.calls)
    /\ LET out == previous.calls[Len(calls) + 1].out IN
       \/ GetUserByUsername(out = "ok")
       \/ SelectUser(out = "ok")
       \/ GenerateEmbedding(out)
       \/ QueryVectorize(out = "ok", IF out = "ok" THEN previous.matches ELSE <<>>)
       \/ SelectByIds(out = "ok")
       \/ \E tie \in previous.ties : SelectRecent(out = "ok", tie)
       \/ GenerateAnswer(out)

NextRepeat ==
    \/ AskFirst
    \/ FirstRun
    \/ Remember
    \/ FirstAnswer
    \/ RememberResponse
    \/ Sent
    \/ AskAgain
    \/ SecondRun

SpecRepeat == Init /\ [][NextRepeat]_vars

\* the identical request is being served again
Repeating == previous.phase = "answered" /\ pc # "idle"

LongMetaUserIds == MetaUserIds \cup {Num(1)}

\* the points an index of k points holds: point i has the id of faq i
LongPoints(k, meta) == {[id |-> NumToString(i), userId |-> meta[i]] : i \in 1..k}

LongLengths == 0..(IF MaxLongMatches < TopK THEN MaxLongMatches ELSE TopK)

\* the result of a query on an index of at most topK points: all of them,
\* the nearest first; nearness follows the ids or runs against them
Ranked(points, order) ==
    OrderBy(points, [p \in points |->
                        IF order = "ascending" THEN ParseInt(p.id)
                        ELSE MaxLongMatches + 1 - ParseInt(p.id)])

\* the owner resolved from ?userId=1, and from ?username=alice
ResolvedOwners ==
    { [req |-> [NoRequest EXCEPT !.question = Str(Hi), !.userId = Str(<<"1">>)],
       ownerId |-> Str(<<"1">>),
       profile |-> ProfileOfRow(CHOOSE u \in UserRows : u.user_id = 1),
       calls |-> <<Call("DB.Users by user_id", "ok"), Call("AI.embedding", "data")>>],
      [req |-> [NoRequest EXCEPT !.question = Str(Hi), !.username = "alice"],
       ownerId |-> Num(1),
       profile |-> ProfileOfUser(CHOOSE u \in UserRows : u.user_id = 1),
       calls |-> <<Call("DB.Users by user_name", "ok"), Call("AI.embedding", "data")>>] }

InitFilter ==
    /\ Users = UserRows
    /\ FAQs = {FaqRow(i, 1) : i \in FreeIds \cup TailIds}
    /\ pc = "vectorize"
    /\ \E o \in ResolvedOwners :
          /\ req = o.req
          /\ chatbotOwnerId = o.ownerId
          /\ chatbotOwnerProfile = o.profile
          /\ calls = o.calls
    /\ question = Hi
    /\ vectorQuery = Declared.vectorQuery
    /\ matchingFaqIds = Declared.matchingFaqIds
    /\ faqs = Declared.faqs
    /\ messages = Declared.messages
    /\ response = NoResponse
    /\ previous = NoPrevious
    /\ \E k \in LongLengths : \E meta \in [1..k -> LongMetaUserIds] :
          Vectors = LongPoints(k, meta)
    /\ creating = IdleClients
    /\ deleting = NotDeleting
    /\ updating = NotUpdating
    /\ workflow = NoWorkflow
    /\ retraining = NotRetraining
    /\ polling = NotPolling
    /\ cache = EmptyCache
    /\ mutations = NoMutations
    /\ started = 0

NextFilter ==
    \E order \in {"ascending", "descending"} : QueryVectorize(TRUE, Ranked(Vectors, order))

SpecFilter == InitFilter /\ [][NextFilter]_vars

\* positions of the matches whose metadata names tenant 1
OwnPositions == {i \in 1..Len(vectorQuery.matches) :
                   vectorQuery.matches[i].userId \in {Str(<<"1">>), Num(1)}}

(***************************************************************************)
(* C19: the id list produced by the tenant filter is exactly the first 5,  *)
(* in search-result order, of the (at most 10) matches whose metadata      *)
(* userId equals the resolved owner id as strings; a match without         *)
(* metadata userId is discarded; truncation comes after filtering, so      *)
(* other tenants' matches never take one of the 5 places.                  *)
(***************************************************************************)
FilterKeepsFirstFiveOfOwner ==
    pc \in {"selectByIds", "selectRecent"} =>
        /\ Len(vectorQuery.matches) <= TopK
        /\ Len(matchingFaqIds) = Min(MaxContext, Cardinality(OwnPositions))
        /\ \A k \in 1..Len(matchingFaqIds) :
              \E i \in OwnPositions :
                 /\ Cardinality({j \in OwnPositions : j <= i}) = k
                 /\ matchingFaqIds[k] = vectorQuery.matches[i].id
        /\ (pc = "selectRecent") <=> (OwnPositions = {})

\* more than 5 matches are the owner's, another tenant's match comes
\* before the fifth of them, and 5 ids were kept
FilterTruncatesAfterFiltering ==
    /\ pc = "selectByIds"
    /\ Cardinality(OwnPositions) > MaxContext
    /\ Len(matchingFaqIds) = MaxContext
    /\ \E i \in 1..MaxContext : vectorQuery.matches[i].userId = Str(<<"2">>)

(***************************************************************************)
(* handleCreateUser (POST /api/users) and upsertUser.  Requests are served *)
(* concurrently: a handler gives way to the others at every await.  One    *)
(* action is one awaited D1 statement with the code up to the next one; a  *)
(* read whose result only goes to the log or to the response body is part  *)
(* of the step before it.                                                  *)
(***************************************************************************)
\* the characters of the user names of the model
Spell(name) ==
    CASE name = "alice" -> <<"a", "l", "i", "c", "e">>
      [] name = "bob" -> <<"b", "o", "b">>
      [] name = "dora" -> <<"d", "o", "r", "a">>
      [] name = "user_1" -> <<"u", "s", "e", "r", "_", "1">>
      [] OTHER -> <<>>

\* String.prototype.startsWith
StartsWith(chars, prefix) ==
    /\ Len(chars) >= Len(prefix)
    /\ SubSeq(chars, 1, Len(prefix)) = prefix

\* !user.username || user.username.startsWith('user_')
NeedsTemporaryUsername(name) ==
    name = "" \/ StartsWith(Spell(name), <<"u", "s", "e", "r", "_">>)

\* `user_${Date.now()}`: the requests of the model are served in the same
\* millisecond and get the same name
TemporaryUsernames == {"user_1"}

\* `user_${Date.now()}_${Math.random()...}`: the random part differs from
\* request to request
RandomUsername(c) ==
    CASE c = 1 -> "user_1_a"
      [] c = 2 -> "user_1_b"
      [] OTHER -> "user_1_c"

\* emails: alice's (a row exists), carol's (no row yet)
Alice == <<"alice", "x.org">>
Carol == <<"carol", "x.org">>

\* bodies of POST /api/users; email <<>> stands for a missing email
UserBodies ==
    { [email |-> Alice, username |-> ""], [email |-> Carol, username |-> ""],
      [email |-> Carol, username |-> "bob"], [email |-> Carol, username |-> "user_1"],
      [email |-> Alice, username |-> "dora"], [email |-> Carol, username |-> "dora"],
      [email |-> <<>>, username |-> "dora"] }

\* SELECT * FROM Users WHERE email = ?
SelectUserByEmail(users, email) == {u \in users : u.email = email}

\* first_name, last_name and user_bio the bodies of the model carry
NewNames == [first_name |-> "New", last_name |-> "", user_bio |-> ""]

\* UPDATE Users SET user_name = ?, first_name = ?, ... WHERE email = ?
UpdateUser(users, email, name) ==
    { IF u.email = email
      THEN [u EXCEPT !.user_name = name, !.first_name = NewNames.first_name,
                     !.last_name = NewNames.last_name, !.user_bio = NewNames.user_bio]
      ELSE u : u \in users }

\* user_id INTEGER PRIMARY KEY AUTOINCREMENT
NextUserId(users) ==
    1 + CHOOSE m \in {u.user_id : u \in users} : \A u \in users : u.user_id <= m

\* INSERT INTO Users (email, user_name, first_name, last_name, user_bio, created_at)
InsertUser(users, email, name) ==
    users \cup {[user_id |-> NextUserId(users), email |-> email, user_name |-> name,
                 first_name |-> NewNames.first_name, last_name |-> NewNames.last_name,
                 user_bio |-> NewNames.user_bio]}

\* the handler of request c moves on
Step(c, next) == creating' = [creating EXCEPT ![c] = next]

\* the handler of request c returns with a status: the body it was posted
\* and the status remain, its local variables are gone
Respond(c, status) ==
    Step(c, [IdleClient EXCEPT !.at = "done", !.status = status,
                               !.email = creating[c].email,
                               !.posted = creating[c].posted])

\* state the requests to /api/users do not touch
others == <<FAQs, pc, req, question, chatbotOwnerId, chatbotOwnerProfile,
            vectorQuery, matchingFaqIds, faqs, messages, response, calls,
            previous, Vectors, deleting, later, started>>

\* POST /api/users arrives (requests are numbered in the order of their
\* arrival): the body is parsed, the email is required, the row of that
\* email is read (the result is not used), and the user name is either
\* replaced by a temporary one or looked up
Post(c, body) ==
    /\ creating[c].at = "idle"
    /\ \A earlier \in 1..(c - 1) : creating[earlier].at # "idle"
    /\ UNCHANGED <<Users, others>>
    /\ LET r == [creating[c] EXCEPT !.email = body.email, !.posted = body.username,
                                    !.username = body.username]
       IN IF body.email = <<>>
          THEN Step(c, [IdleClient EXCEPT !.at = "done", !.status = 400,
                                          !.posted = body.username])
          ELSE IF NeedsTemporaryUsername(body.username)
          THEN \E temp \in TemporaryUsernames :
                  Step(c, [r EXCEPT !.at = "checkTemp", !.tempUsername = temp])
          ELSE Step(c, [r EXCEPT !.at = "checkUsername"])

\* one turn of the while loop: await getUserByUsername(tempUsername)
CheckTemp(c) ==
    /\ creating[c].at = "checkTemp"
    /\ UNCHANGED <<Users, others>>
    /\ LET r == creating[c] IN
       IF SelectUserByName(Users, r.tempUsername) = {}
       THEN Step(c, [r EXCEPT !.at = "upsert", !.username = r.tempUsername])
       ELSE IF r.attempts + 1 < 10
       THEN Step(c, [r EXCEPT !.tempUsername = RandomUsername(c),
                              !.attempts = r.attempts + 1])
       ELSE Step(c, [r EXCEPT !.at = "upsert", !.username = RandomUsername(c),
                              !.tempUsername = RandomUsername(c),
                              !.attempts = r.attempts + 1])

\* await getUserByUsername(user.username) without the rejection
CheckUsernameNoReject(c) ==
    /\ creating[c].at = "checkUsername"
    /\ UNCHANGED <<Users, others>>
    /\ Step(c, [creating[c] EXCEPT !.at = "upsert"])

\* await getUserByUsername(user.username): .first() gives one of the rows
\* of that name; 409 if it is another user's
CheckUsername(c) ==
    /\ creating[c].at = "checkUsername"
    /\ UNCHANGED <<Users, others>>
    /\ LET found == SelectUserByName(Users, creating[c].username) IN
       IF found = {}
       THEN Step(c, [creating[c] EXCEPT !.at = "upsert"])
       ELSE \E existing \in found :
               IF existing.email # creating[c].email
               THEN Respond(c, 409)
               ELSE Step(c, [creating[c] EXCEPT !.at = "upsert"])

\* upsertUser: await getUserByEmail(db, user.email)
UpsertLookup(c) ==
    /\ creating[c].at = "upsert"
    /\ UNCHANGED <<Users, others>>
    /\ Step(c, [creating[c] EXCEPT
                  !.at = IF SelectUserByEmail(Users, creating[c].email) # {}
                         THEN "update" ELSE "insert"])

\* upsertUser: await UPDATE ... run()
UpdateExisting(c) ==
    /\ creating[c].at = "update"
    /\ Users' = UpdateUser(Users, creating[c].email, creating[c].username)
    /\ Step(c, [creating[c] EXCEPT !.at = "fetch"])
    /\ UNCHANGED others

\* upsertUser: await INSERT ... run(); email is UNIQUE, so the statement
\* throws when a row of that email has appeared, and the handler returns 500
InsertNew(c) ==
    /\ creating[c].at = "insert"
    /\ UNCHANGED others
    /\ IF SelectUserByEmail(Users, creating[c].email) # {}
       THEN Respond(c, 500) /\ UNCHANGED Users
       ELSE /\ Users' = InsertUser(Users, creating[c].email, creating[c].username)
            /\ Step(c, [creating[c] EXCEPT !.at = "fetch"])

\* the rows read back for the response (upsertUser's and the handler's
\* getUserByEmail), and the 201 response
FetchCreated(c) ==
    /\ creating[c].at = "fetch"
    /\ UNCHANGED <<Users, others>>
    /\ Respond(c, IF SelectUserByEmail(Users, creating[c].email) = {} THEN 500 ELSE 201)

NextUsers ==
    \E c \in Clients :
        \/ \E body \in UserBodies : Post(c, body)
        \/ CheckTemp(c)
        \/ CheckUsername(c)
        \/ UpsertLookup(c)
        \/ UpdateExisting(c)
        \/ InsertNew(c)
        \/ FetchCreated(c)

SpecUsers == Init /\ [][NextUsers]_vars

(***************************************************************************)
(* C17 as stated: after any sequence and interleaving of POST /api/users   *)
(* requests, no two rows of Users share the same user_name.                *)
(***************************************************************************)
UsernamesUnique ==
    \A u, v \in Users : u.user_name = v.user_name => u = v

\* request c makes the look-up that decides on its user name
LooksUpUsername(c) ==
    /\ creating[c].at \in {"checkTemp", "checkUsername"}
    /\ creating[c].attempts = 0
    /\ creating'[c] # creating[c]

\* the user name request c posted is held, and only by users of another email
HeldByAnother(c) ==
    /\ creating[c].posted # ""
    /\ \E u \in Users : u.user_name = creating[c].posted
    /\ \A u \in Users : u.user_name = creating[c].posted => u.email # creating[c].email

\* request c is rejected with 409 in this step and no row changes
RejectedUnchanged(c) ==
    /\ creating'[c].at = "done"
    /\ creating'[c].status = 409
    /\ Users' = Users

HeldTemporaryUsernameAccepted ==
    \E c \in Clients :
        /\ creating[c].at = "done" /\ creating[c].status = 201
        /\ creating[c].posted = "user_1"
        /\ \E u \in Users : u.user_name = "user_1" /\ u.email # creating[c].email
        /\ \A u \in Users : u.user_name = "user_1" => u.email # creating[c].email

\* request c writes the row of its email in this step
WritesExistingRow(c) ==
    /\ creating[c].at = "update"
    /\ creating'[c].at = "fetch"

(***************************************************************************)
(* C29 as stated: handleCreateUser for an email that already exists        *)
(* changes that user's stored username only to the username given in the   *)
(* request: a request that omits the username, or gives one starting with  *)
(* 'user_', leaves the existing username in place.                         *)
(***************************************************************************)
ExistingUsernameOnlyToPosted ==
    [][\A c \in Clients : WritesExistingRow(c) =>
          \A u \in Users, v \in Users' :
              u.email = creating[c].email /\ v.email = creating[c].email =>
                  v.user_name =
                      IF creating[c].posted = ""
                            \/ StartsWith(Spell(creating[c].posted),
                                          <<"u", "s", "e", "r", "_">>)
                      THEN u.user_name
                      ELSE creating[c].posted]_vars

\* the same for the requests that give a username not starting with 'user_'
ExistingUsernameToRegularPosted ==
    [][\A c \in Clients :
          WritesExistingRow(c) /\ creating[c].posted # ""
              /\ ~StartsWith(Spell(creating[c].posted), <<"u", "s", "e", "r", "_">>)
          => \A v \in Users' :
                v.email = creating[c].email => v.user_name = creating[c].posted]_vars

(***************************************************************************)
(* handleDeleteFAQ (DELETE /api/faqs/:id): the FAQ is looked up, its       *)
(* vector point is deleted from the index, then its row from D1, and the   *)
(* deletion is verified.  The index starts with one point per FAQ row, as  *)
(* the FAQ workflow writes them.                                           *)
(***************************************************************************)
\* the point the workflow upserts for a row: id faq_id.toString(),
\* metadata.userId userId.toString()
PointOf(r) == [id |-> NumToString(r.faq_id), userId |-> Str(NumToString(r.user_id))]

\* requests: the id parameter (a row of the free rows, a row of the later
\* rows, no row) and the body's userId (missing, a string, a number)
DeleteRequests ==
    [faqId : {NumToString(1), NumToString(FreeRows + 1), <<"9", "9">>},
     userId : {Undefined, Str(<<"1">>), Str(<<"2">>), Num(1)}]

\* SELECT ... FROM FAQs WHERE faq_id = ?
SelectFaqById(table, faqId) == {r \in table : r.faq_id = SqlInteger(Str(faqId))}

\* DELETE FROM FAQs WHERE faq_id = ? AND user_id = ?
DeleteFaq(table, faqId, userId) ==
    {r \in table : ~(r.faq_id = SqlInteger(Str(faqId)) /\ r.user_id = SqlInteger(userId))}

\* VECTOR_INDEX.deleteByIds([faqId.toString()])
DeleteByIds(points, faqId) == {p \in points : p.id # faqId}

\* return c.json(body, status)
Reply(status, error) ==
    deleting' = [deleting EXCEPT !.at = "done", !.status = status, !.error = error]

\* state handleDeleteFAQ does not touch
apart == <<Users, pc, req, question, chatbotOwnerId, chatbotOwnerProfile,
           vectorQuery, matchingFaqIds, faqs, messages, response, calls,
           previous, creating, later>>

InitDelete ==
    /\ Users = UserRows
    /\ FAQs \in FaqTables
    /\ Vectors = {PointOf(r) : r \in FAQs}
    /\ deleting = NotDeleting
    /\ pc = "idle"
    /\ req = NoRequest
    /\ question = Declared.question
    /\ chatbotOwnerId = Declared.chatbotOwnerId
    /\ chatbotOwnerProfile = Declared.chatbotOwnerProfile
    /\ vectorQuery = Declared.vectorQuery
    /\ matchingFaqIds = Declared.matchingFaqIds
    /\ faqs = Declared.faqs
    /\ messages = Declared.messages
    /\ response = NoResponse
    /\ calls = <<>>
    /\ previous = NoPrevious
    /\ creating = IdleClients
    /\ updating = NotUpdating
    /\ workflow = NoWorkflow
    /\ retraining = NotRetraining
    /\ polling = NotPolling
    /\ cache = EmptyCache
    /\ mutations = NoMutations
    /\ started = 0

\* the request arrives; the id parameter and the body's userId are required
ReceiveDelete(r) ==
    /\ deleting.at = "idle"
    /\ UNCHANGED <<FAQs, Vectors, apart>>
    /\ IF ~Truthy(r.userId)
       THEN deleting' = [NotDeleting EXCEPT !.at = "done", !.faqId = r.faqId,
                                           !.status = 400, !.error = "userId is required"]
       ELSE deleting' = [NotDeleting EXCEPT !.at = "getFaqById", !.faqId = r.faqId,
                                           !.userId = r.userId]

\* Step 1, await getFaqById(c.env.DB, faqId): the FAQ must exist and be the
\* user's
VerifyOwnership(ok) ==
    /\ deleting.at = "getFaqById"
    /\ UNCHANGED <<FAQs, Vectors, apart, started>>
    /\ LET found == SelectFaqById(FAQs, deleting.faqId) IN
       IF ~ok THEN Reply(500, "error")
       ELSE IF found = {} THEN Reply(404, "FAQ not found")
       ELSE IF \E existingFaq \in found :
                  Str(NumToString(existingFaq.user_id)) # ToStringOpt(deleting.userId)
       THEN Reply(404, "FAQ not found")
       ELSE deleting' = [deleting EXCEPT !.at = "deleteByIds"]

\* Step 2, await VECTOR_INDEX.deleteByIds([faqId]); a throw is caught and
\* the handler continues with the D1 deletion
DeleteVector(ok) ==
    /\ deleting.at = "deleteByIds"
    /\ Vectors' = IF ok THEN DeleteByIds(Vectors, deleting.faqId) ELSE Vectors
    /\ deleting' = [deleting EXCEPT !.at = "delete", !.vectorDeleted = ok]
    /\ UNCHANGED <<FAQs, apart, started>>

\* Step 3, await DELETE ... run()
DeleteRow(out) ==
    /\ deleting.at = "delete"
    /\ UNCHANGED <<Vectors, apart, started>>
    /\ IF out = "success"
       THEN /\ FAQs' = DeleteFaq(FAQs, deleting.faqId, deleting.userId)
            /\ deleting' = [deleting EXCEPT !.at = "verify"]
       ELSE /\ FAQs' = FAQs
            /\ Reply(500, IF out = "throws" THEN "error"
                          ELSE "Failed to delete FAQ from database")

\* await getFaqById again, and the success response
VerifyDeletion(ok) ==
    /\ deleting.at = "verify"
    /\ UNCHANGED <<FAQs, Vectors, apart, started>>
    /\ IF ok
       THEN deleting' = [deleting EXCEPT
                            !.at = "done", !.status = 200,
                            !.deletedFromD1 = SelectFaqById(FAQs, deleting.faqId) = {}]
       ELSE Reply(500, "error")

\* the response has been sent
DeleteComplete ==
    /\ deleting.at = "done"
    /\ deleting' = NotDeleting
    /\ UNCHANGED <<FAQs, Vectors, apart, started>>

NextDelete ==
    \/ \E r \in DeleteRequests : ReceiveDelete(r) /\ UNCHANGED started
    \/ \E ok \in BOOLEAN : VerifyOwnership(ok)
    \/ \E ok \in BOOLEAN : DeleteVector(ok)
    \/ \E out \in {"success", "failure", "throws"} : DeleteRow(out)
    \/ \E ok \in BOOLEAN : VerifyDeletion(ok)
    \/ DeleteComplete

SpecDelete == InitDelete /\ [][NextDelete]_vars

(***************************************************************************)
(* C20 as stated: after handleDeleteFAQ reports success for an FAQ,        *)
(* neither the store row nor the vector point with that id exists,         *)
(* including when the vector-index delete call failed.                     *)
(***************************************************************************)
DeleteSuccessRemovesBoth ==
    deleting.at = "done" /\ deleting.status = 200 =>
        /\ \A r \in FAQs : r.faq_id # ParseInt(deleting.faqId)
        /\ \A p \in Vectors : p.id # deleting.faqId

\* the same for the store row alone
DeleteSuccessRemovesRow ==
    deleting.at = "done" /\ deleting.status = 200 =>
        /\ deleting.deletedFromD1
        /\ \A r \in FAQs : r.faq_id # ParseInt(deleting.faqId)

\* the number of entries in the context block of the messages sent to the LLM
ContextEntries(msgs) ==
    LET blocks == SelectSeq(msgs, LAMBDA m : m.kind = "context")
    IN IF blocks = <<>> THEN 0 ELSE Len(blocks[1].faqs)

(***************************************************************************)
(* C25: in every answer response of handleChatbotQuery, contextUsed is     *)
(* true exactly when faqsUsed is greater than 0, faqsUsed never exceeds 5, *)
(* and faqsUsed equals the number of entries in the context block of the   *)
(* messages the LLM was called with.                                       *)
(***************************************************************************)
AnswerCountsContextEntries ==
    /\ [](Answered =>
            /\ response.contextUsed <=> response.faqsUsed > 0
            /\ response.faqsUsed \in 0..MaxContext)
    /\ [][pc = "llm" /\ pc' = "done" =>
            /\ response'.status = 200
            /\ response'.faqsUsed = ContextEntries(messages)
            /\ response'.contextUsed <=> ContextEntries(messages) > 0]_vars

\* an answer built on five entries, where the tenant has more than five
AnsweredWithFiveEntries ==
    /\ Answered
    /\ response.contextUsed
    /\ response.faqsUsed = MaxContext
    /\ Cardinality({r \in FAQs : r.user_id = 1}) > MaxContext

(***************************************************************************)
(* The FAQ operations that write the store and the index: FAQWorkflow.run  *)
(* (create), handleUpdateFAQ, handleDeleteFAQ and the retrain route.  They *)
(* are served concurrently: a handler gives way to the others at every     *)
(* await.  One action is one awaited call with the code up to the next     *)
(* one.  A row carries its text (question and answer as one value); a      *)
(* point carries its id, metadata.userId, the text it was embedded from    *)
(* and the faq_id of the row its writer had in hand.                       *)
(***************************************************************************)
Old == <<"o", "l", "d">>
New == <<"n", "e", "w">>
Made == <<"m", "a", "d", "e">>

\* a row of FAQs with its text
Entry(id, owner, text) ==
    [faq_id |-> id, user_id |-> owner, created_at |-> CreatedAt(id), text |-> text]

\* the element of VECTOR_INDEX.upsert([...])
Point(id, userId, text, row) ==
    [id |-> id, userId |-> userId, text |-> text, writtenFor |-> row]

\* VECTOR_INDEX.upsert: the point replaces the point of the same id
Upsert(points, p) == {q \in points : q.id # p.id} \cup {p}

\* the rows the operations start from: one FAQ of each tenant, each with
\* the point the workflow wrote for it
StoredEntries == {Entry(1, 1, Old), Entry(2, 2, Old)}

StoredPoints ==
    {Point(NumToString(r.faq_id), Str(NumToString(r.user_id)), r.text, r.faq_id) :
        r \in StoredEntries}

\* bodies of PUT /api/faqs/:id with the id parameter: the id as the server
\* prints it, the same number spelled with a leading zero, and no row's id;
\* question and answer are a text, blanks, or missing
UpdateRequests ==
    [faqId : {<<"1">>, <<"0", "1">>, <<"9">>},
     userId : {Undefined, Str(<<"1">>), Str(<<"2">>)},
     text : {Str(New), Str(<<" ">>), Undefined}]

\* payloads of the workflow: userId as a number, as its decimal string, and
\* as the same number spelled with a leading zero
WorkflowPayloads ==
    [userId : {Num(1), Str(<<"2">>), Str(<<"0", "1">>)}, text : {Made}]

\* AUTOINCREMENT: faq_id values are never used again
NextFaqId(n) == Cardinality(StoredEntries) + n + 1

\* UPDATE FAQs SET question = ?, answer = ? WHERE faq_id = ? AND user_id = ?
UpdateFaq(table, faqId, userId, text) ==
    { IF r.faq_id = SqlInteger(Str(faqId)) /\ r.user_id = SqlInteger(userId)
      THEN [r EXCEPT !.text = text] ELSE r : r \in table }

\* one more operation is started
Begin ==
    /\ started < MaxOperations
    /\ started' = started + 1

\* state the FAQ operations do not touch
beside == <<Users, pc, req, question, chatbotOwnerId, chatbotOwnerProfile,
            vectorQuery, matchingFaqIds, faqs, messages, response, calls,
            previous, creating, polling, cache, mutations, started>>

\* the same without the number of operations
aside == <<Users, pc, req, question, chatbotOwnerId, chatbotOwnerProfile,
           vectorQuery, matchingFaqIds, faqs, messages, response, calls,
           previous, creating, polling, cache, mutations>>

InitFaqs ==
    /\ Users = UserRows
    /\ FAQs = StoredEntries
    /\ Vectors = StoredPoints
    /\ deleting = NotDeleting
    /\ updating = NotUpdating
    /\ workflow = NoWorkflow
    /\ retraining = NotRetraining
    /\ polling = NotPolling
    /\ cache = EmptyCache
    /\ mutations = NoMutations
    /\ started = 0
    /\ pc = "idle"
    /\ req = NoRequest
    /\ question = Declared.question
    /\ chatbotOwnerId = Declared.chatbotOwnerId
    /\ chatbotOwnerProfile = Declared.chatbotOwnerProfile
    /\ vectorQuery = Declared.vectorQuery
    /\ matchingFaqIds = Declared.matchingFaqIds
    /\ faqs = Declared.faqs
    /\ messages = Declared.messages
    /\ response = NoResponse
    /\ calls = <<>>
    /\ previous = NoPrevious
    /\ creating = IdleClients

\* return c.json(body, status) of handleUpdateFAQ
ReplyUpdate(status, error) ==
    updating' = [updating EXCEPT !.at = "done", !.status = status, !.error = error]

\* PUT /api/faqs/:id arrives: userId, question and answer are required
ReceiveUpdate(r) ==
    /\ updating.at = "idle"
    /\ Begin
    /\ UNCHANGED <<FAQs, Vectors, deleting, workflow, retraining, aside>>
    /\ LET u == [NotUpdating EXCEPT !.faqId = r.faqId] IN
       IF ~Truthy(r.userId)
       THEN updating' = [u EXCEPT !.at = "done", !.status = 400,
                                  !.error = "userId is required"]
       ELSE IF r.text = Undefined \/ IsBlank(r.text.s)
       THEN updating' = [u EXCEPT !.at = "done", !.status = 400, !.userId = r.userId,
                                  !.error = "Question and answer are required"]
       ELSE updating' = [u EXCEPT !.at = "getFaqById", !.userId = r.userId,
                                  !.text = r.text.s]

\* await getFaqById without the comparison of the owner
VerifyUpdateAnyUser(ok) ==
    /\ updating.at = "getFaqById"
    /\ UNCHANGED <<FAQs, Vectors, deleting, workflow, retraining, beside>>
    /\ IF ~ok THEN ReplyUpdate(500, "error")
       ELSE IF SelectFaqById(FAQs, updating.faqId) = {}
       THEN ReplyUpdate(404, "FAQ not found")
       ELSE updating' = [updating EXCEPT !.at = "update"]

\* await getFaqById(c.env.DB, faqId): the FAQ must exist and be the user's
VerifyUpdate(ok) ==
    /\ updating.at = "getFaqById"
    /\ UNCHANGED <<FAQs, Vectors, deleting, workflow, retraining, beside>>
    /\ LET found == SelectFaqById(FAQs, updating.faqId) IN
       IF ~ok THEN ReplyUpdate(500, "error")
       ELSE IF found = {} THEN ReplyUpdate(404, "FAQ not found")
       ELSE IF \E existingFaq \in found :
                  Str(NumToString(existingFaq.user_id)) # ToStringOpt(updating.userId)
       THEN ReplyUpdate(404, "FAQ not found")
       ELSE updating' = [updating EXCEPT !.at = "update"]

\* await UPDATE ... run(), with question.trim() and answer.trim()
UpdateRow(out) ==
    /\ updating.at = "update"
    /\ UNCHANGED <<Vectors, deleting, workflow, retraining, beside>>
    /\ IF out = "success"
       THEN LET table == UpdateFaq(FAQs, updating.faqId, updating.userId,
                                   Trim(updating.text))
            IN /\ FAQs' = table
               /\ updating' = [updating EXCEPT !.at = "reread",
                                               !.rowWritten = table # FAQs]
       ELSE /\ FAQs' = FAQs
            /\ ReplyUpdate(500, IF out = "throws" THEN "error"
                                ELSE "Failed to update FAQ")

\* await getFaqById again: updatedFaq
RereadUpdated(ok) ==
    /\ updating.at = "reread"
    /\ UNCHANGED <<FAQs, Vectors, deleting, workflow, retraining, beside>>
    /\ IF ~ok THEN ReplyUpdate(500, "error")
       ELSE IF SelectFaqById(FAQs, updating.faqId) = {}
       THEN ReplyUpdate(404, "FAQ not found after update")
       ELSE updating' = [updating EXCEPT !.at = "embedding"]

\* await AI.run('@cf/baai/bge-base-en-v1.5'): embedding.data?.[0]
EmbedUpdated(out) ==
    /\ updating.at = "embedding"
    /\ UNCHANGED <<FAQs, Vectors, deleting, workflow, retraining, beside>>
    /\ IF out = "data" THEN updating' = [updating EXCEPT !.at = "upsert"]
       ELSE IF out = "throws" THEN ReplyUpdate(500, "error")
       ELSE ReplyUpdate(500, "Failed to generate embedding")

\* await VECTOR_INDEX.upsert([{id: faqId.toString(), metadata: {userId:
\* userId.toString(), question: question.trim(), ...}}]) and the response
UpsertUpdated(ok) ==
    /\ updating.at = "upsert"
    /\ UNCHANGED <<FAQs, deleting, workflow, retraining, beside>>
    /\ IF ok
       THEN /\ Vectors' =
                  Upsert(Vectors, Point(updating.faqId, ToStringOpt(updating.userId),
                                        Trim(updating.text),
                                        SqlInteger(Str(updating.faqId))))
            /\ updating' = [updating EXCEPT !.at = "done", !.status = 200,
                                            !.pointWritten = TRUE]
       ELSE /\ Vectors' = Vectors
            /\ ReplyUpdate(500, "error")

\* the response has been sent
UpdateComplete ==
    /\ updating.at = "done"
    /\ updating' = NotUpdating
    /\ UNCHANGED <<FAQs, Vectors, deleting, workflow, retraining, beside>>

\* POST /api/faqs: the route checks the body and creates the workflow
\* instance, which starts to run
StartWorkflow(payload) ==
    /\ workflow.at = "idle"
    /\ Begin
    /\ workflow' = [workflow EXCEPT !.at = "insert", !.userId = payload.userId,
                                    !.text = payload.text, !.record = 0,
                                    !.status = "running"]
    /\ UNCHANGED <<FAQs, Vectors, deleting, updating, retraining, aside>>

\* a step of the workflow threw: the instance ends in error (the retries the
\* platform makes of a failing step are left out)
WorkflowErrored ==
    workflow' = [workflow EXCEPT !.at = "done", !.status = "errored"]

\* step 'create database record', await INSERT INTO FAQs (user_id, question,
\* answer) ... run(): meta.last_row_id is the new faq_id; user_id must be
\* the id of a Users row (FOREIGN KEY)
InsertRecord(ok) ==
    /\ workflow.at = "insert"
    /\ UNCHANGED <<Vectors, deleting, updating, retraining, beside>>
    /\ LET owner == SqlInteger(workflow.userId)
           id == NextFaqId(workflow.inserted)
       IN IF ok /\ \E u \in Users : u.user_id = owner
          THEN /\ FAQs' = FAQs \cup {Entry(id, owner, workflow.text)}
               /\ workflow' = [workflow EXCEPT !.at = "select", !.record = id,
                                               !.inserted = workflow.inserted + 1]
          ELSE /\ FAQs' = FAQs
               /\ WorkflowErrored

\* step 'create database record', await SELECT * FROM FAQs WHERE faq_id = ?
FetchRecord(ok) ==
    /\ workflow.at = "select"
    /\ UNCHANGED <<FAQs, Vectors, deleting, updating, retraining, beside>>
    /\ IF ok /\ \E r \in FAQs : r.faq_id = workflow.record
       THEN workflow' = [workflow EXCEPT !.at = "embedding"]
       ELSE WorkflowErrored

\* step 'generate embedding'
EmbedRecord(ok) ==
    /\ workflow.at = "embedding"
    /\ UNCHANGED <<FAQs, Vectors, deleting, updating, retraining, beside>>
    /\ IF ok THEN workflow' = [workflow EXCEPT !.at = "upsert"]
       ELSE WorkflowErrored

\* step 'insert vector': VECTOR_INDEX.upsert([{id: record.faq_id.toString(),
\* metadata: {userId: userId.toString(), ...}}])
UpsertRecord(ok) ==
    /\ workflow.at = "upsert"
    /\ UNCHANGED <<FAQs, deleting, updating, retraining, beside>>
    /\ IF ok
       THEN /\ Vectors' =
                  Upsert(Vectors, Point(NumToString(workflow.record),
                                        ToStringOpt(workflow.userId),
                                        workflow.text, workflow.record))
            /\ workflow' = [workflow EXCEPT !.at = "done", !.status = "complete"]
       ELSE /\ Vectors' = Vectors
            /\ WorkflowErrored

\* the instance is over
WorkflowEnd ==
    /\ workflow.at = "done"
    /\ workflow' = [NoWorkflow EXCEPT !.inserted = workflow.inserted]
    /\ UNCHANGED <<FAQs, Vectors, deleting, updating, retraining, beside>>

\* the rows a retrain request reads: all of them, or one user's
RetrainScopes == {Undefined, Str(<<"1">>)}

\* SELECT faq_id, user_id, question, answer FROM FAQs [WHERE user_id = ?]
\* ORDER BY faq_id
SelectForRetrain(table, scope) ==
    LET S == IF scope = Undefined THEN table
             ELSE {r \in table : r.user_id = SqlInteger(scope)}
    IN OrderBy(S, [r \in S |-> r.faq_id])

\* the loop of the retrain routes goes on to the next row, or the route
\* returns its counts
NextFaq(r) ==
    IF r.faq < Len(r.results)
    THEN [r EXCEPT !.at = "embedding", !.faq = r.faq + 1]
    ELSE [r EXCEPT !.at = "done", !.status = 200]

\* POST /admin/retrain-embeddings[/:userId] arrives and reads the rows
StartRetrain(scope, ok) ==
    /\ retraining.at = "idle"
    /\ Begin
    /\ UNCHANGED <<FAQs, Vectors, deleting, updating, workflow, aside>>
    /\ LET results == SelectForRetrain(FAQs, scope) IN
       IF ~ok THEN retraining' = [NotRetraining EXCEPT !.at = "done", !.status = 500]
       ELSE IF results = <<>>
       THEN retraining' = [NotRetraining EXCEPT !.at = "done", !.status = 200]
       ELSE retraining' = [NotRetraining EXCEPT !.at = "embedding", !.results = results]

\* await AI.run for the row at hand; a throw, an async response or a
\* response without data is pushed to errors and the loop goes on
RetrainEmbed(out) ==
    /\ retraining.at = "embedding"
    /\ UNCHANGED <<FAQs, Vectors, deleting, updating, workflow, beside>>
    /\ IF out = "data" THEN retraining' = [retraining EXCEPT !.at = "upsert"]
       ELSE retraining' =
               NextFaq([retraining EXCEPT !.failedCount = retraining.failedCount + 1])

\* await VECTOR_INDEX.upsert([{id: faq.faq_id.toString(), metadata: {userId:
\* faq.user_id.toString(), ...}}]) for the row at hand
RetrainUpsert(ok) ==
    /\ retraining.at = "upsert"
    /\ UNCHANGED <<FAQs, deleting, updating, workflow, beside>>
    /\ LET faq == retraining.results[retraining.faq] IN
       IF ok
       THEN /\ Vectors' =
                  Upsert(Vectors, Point(NumToString(faq.faq_id),
                                        Str(NumToString(faq.user_id)),
                                        faq.text, faq.faq_id))
            /\ retraining' =
                  NextFaq([retraining EXCEPT
                              !.retrainedCount = retraining.retrainedCount + 1])
       ELSE /\ Vectors' = Vectors
            /\ retraining' =
                  NextFaq([retraining EXCEPT
                              !.failedCount = retraining.failedCount + 1])

\* the response has been sent
RetrainComplete ==
    /\ retraining.at = "done"
    /\ retraining' = NotRetraining
    /\ UNCHANGED <<FAQs, Vectors, deleting, updating, workflow, beside>>

\* DELETE /api/faqs/:id arrives
BeginDelete(r) ==
    /\ Begin
    /\ ReceiveDelete(r)

NextFaqs ==
    \/ \E r \in UpdateRequests : ReceiveUpdate(r)
    \/ \E ok \in BOOLEAN : VerifyUpdate(ok)
    \/ \E out \in {"success", "failure", "throws"} : UpdateRow(out)
    \/ \E ok \in BOOLEAN : RereadUpdated(ok)
    \/ \E out \in {"data", "no data", "throws"} : EmbedUpdated(out)
    \/ \E ok \in BOOLEAN : UpsertUpdated(ok)
    \/ UpdateComplete
    \/ \E r \in DeleteRequests : BeginDelete(r)
    \/ \E ok \in BOOLEAN : VerifyOwnership(ok)
    \/ \E ok \in BOOLEAN : DeleteVector(ok)
    \/ \E out \in {"success", "failure", "throws"} : DeleteRow(out)
    \/ \E ok \in BOOLEAN : VerifyDeletion(ok)
    \/ DeleteComplete
    \/ \E payload \in WorkflowPayloads : StartWorkflow(payload)
    \/ \E ok \in BOOLEAN : InsertRecord(ok)
    \/ \E ok \in BOOLEAN : FetchRecord(ok)
    \/ \E ok \in BOOLEAN : EmbedRecord(ok)
    \/ \E ok \in BOOLEAN : UpsertRecord(ok)
    \/ WorkflowEnd
    \/ \E scope \in RetrainScopes, ok \in BOOLEAN : StartRetrain(scope, ok)
    \/ \E out \in {"data", "no data", "throws"} : RetrainEmbed(out)
    \/ \E ok \in BOOLEAN : RetrainUpsert(ok)
    \/ RetrainComplete

SpecFaqs == InitFaqs /\ [][NextFaqs]_vars

\* every point holds the fields the operations write
FaqsTypeOK ==
    /\ \A p \in Vectors : p.writtenFor \in Nat
    /\ \A r \in FAQs : r.text \in {Old, New, Made}

(***************************************************************************)
(* C21 as stated: no interleaving of handleUpdateFAQ and handleDeleteFAQ   *)
(* on the same FAQ ends, once both have completed and the delete has       *)
(* reported success, with a vector point for that id still in the index    *)
(* while the store has no row for it.  (Stated for the deletes whose       *)
(* deleteByIds call succeeded, so that only the interleaving is at work.)  *)
(***************************************************************************)
UpdateAndDeleteLeaveNoOrphan ==
    /\ updating.at = "done"
    /\ deleting.at = "done"
    /\ deleting.status = 200
    /\ deleting.vectorDeleted
    /\ updating.faqId = deleting.faqId
    => ~ /\ \E p \in Vectors : p.id = deleting.faqId
         /\ \A r \in FAQs : r.faq_id # ParseInt(deleting.faqId)

(***************************************************************************)
(* C22 as stated: after any sequence and interleaving of FAQ create        *)
(* (FAQWorkflow), update, delete and retrain operations, every vector      *)
(* point whose id matches an existing FAQ row carries metadata userId      *)
(* equal to that row's user_id (as the chatbot compares them: the strings  *)
(* of the two values).                                                     *)
(***************************************************************************)
PointMetadataEqualsRowOwner ==
    \A p \in Vectors, r \in FAQs :
        p.id = NumToString(r.faq_id) => p.userId = Str(NumToString(r.user_id))

\* the same up to the spelling of the number: the metadata userId converts
\* to the row's user_id
PointMetadataDenotesRowOwner ==
    \A p \in Vectors, r \in FAQs :
        p.id = NumToString(r.faq_id) => SqlInteger(p.userId) = r.user_id

(***************************************************************************)
(* C23 as stated: every vector point written by the FAQ create workflow,   *)
(* by handleUpdateFAQ and by the retrain routes has an id equal to the     *)
(* decimal string of the faq_id of the store row it was written for, so    *)
(* that an id returned by the vector search always joins to the row it was *)
(* embedded from.                                                          *)
(***************************************************************************)
PointIdIsDecimalFaqId ==
    \A p \in Vectors :
        /\ p.id = NumToString(p.writtenFor)
        /\ ParseInt(p.id) = p.writtenFor

\* the join alone: parseInt of the point id is the faq_id of the row the
\* point was written for
PointIdJoinsToItsRow ==
    \A p \in Vectors : ParseInt(p.id) = p.writtenFor

(***************************************************************************)
(* C24 as stated: if handleUpdateFAQ returns an error response, the FAQ's  *)
(* store row and its vector point are both unchanged: the handler has      *)
(* changed neither.  In particular a failure of the embedding call or of   *)
(* the vector upsert does not leave the row holding the new text while the *)
(* vector point still holds the old one.                                   *)
(***************************************************************************)
UpdateErrorChangesNothing ==
    updating.at = "done" /\ updating.status >= 400 =>
        /\ ~updating.rowWritten
        /\ ~updating.pointWritten

\* the same for the vector point alone
UpdateErrorLeavesPoint ==
    updating.at = "done" /\ updating.status >= 400 => ~updating.pointWritten

\* no row of the table with this id is the user's: the id has no row, or
\* the row's user_id.toString() differs from userId.toString()
NotOwned(table, faqId, userId) ==
    \A r \in SelectFaqById(table, faqId) :
        Str(NumToString(r.user_id)) # ToStringOpt(userId)

\* a step of handleUpdateFAQ up to its ownership check, for a request that
\* carries a userId
UpdateChecksUnowned ==
    /\ updating.at \in {"idle", "getFaqById"}
    /\ updating' # updating
    /\ Truthy(updating'.userId)
    /\ NotOwned(FAQs, updating'.faqId, updating'.userId)

\* the same of handleDeleteFAQ
DeleteChecksUnowned ==
    /\ deleting.at \in {"idle", "getFaqById"}
    /\ deleting' # deleting
    /\ Truthy(deleting'.userId)
    /\ NotOwned(FAQs, deleting'.faqId, deleting'.userId)

(***************************************************************************)
(* C28 as stated: handleUpdateFAQ and handleDeleteFAQ called with a userId *)
(* that does not own the FAQ, or for an id that has no row, return 404 and *)
(* change neither the store row nor the vector index.                      *)
(***************************************************************************)
UnownedReturnsNotFound ==
    [][/\ UpdateChecksUnowned /\ updating'.at = "done" =>
              updating'.status = 404 /\ UNCHANGED <<FAQs, Vectors>>
       /\ DeleteChecksUnowned /\ deleting'.at = "done" =>
              deleting'.status = 404 /\ UNCHANGED <<FAQs, Vectors>>]_vars

(***************************************************************************)
(* C28 amended: neither handler reaches a write for a request whose userId *)
(* does not own the FAQ or whose id has no row, and the row and the index  *)
(* stay as they are.  The response is 404 "FAQ not found" once the lookup  *)
(* has answered; it is 400 when handleUpdateFAQ finds the question or the  *)
(* answer blank, which it checks before the lookup, and 500 when the       *)
(* lookup throws.                                                          *)
(***************************************************************************)
UnownedRejectedUnchanged ==
    [][/\ UpdateChecksUnowned =>
              /\ UNCHANGED <<FAQs, Vectors>>
              /\ ~updating'.rowWritten /\ ~updating'.pointWritten
              /\ IF updating.at = "idle"
                 THEN \/ updating'.at = "getFaqById"
                      \/ /\ updating'.at = "done"
                         /\ updating'.status = 400
                         /\ updating'.error = "Question and answer are required"
                 ELSE /\ updating'.at = "done"
                      /\ <<updating'.status, updating'.error>>
                             \in {<<404, "FAQ not found">>, <<500, "error">>}
       /\ DeleteChecksUnowned =>
              /\ UNCHANGED <<FAQs, Vectors>>
              /\ ~deleting'.vectorDeleted /\ ~deleting'.deletedFromD1
              /\ IF deleting.at = "idle"
                 THEN deleting'.at = "getFaqById"
                 ELSE /\ deleting'.at = "done"
                      /\ <<deleting'.status, deleting'.error>>
                             \in {<<404, "FAQ not found">>, <<500, "error">>}
       /\ updating.at = "done" => updating'.at \in {"done", "idle"}
       /\ deleting.at = "done" => deleting'.at \in {"done", "idle"}]_vars

\* user 2 has asked to update and to delete FAQ 1, which is user 1's, both
\* got 404, and the table and the index are as they were
UnownedBothNotFound ==
    /\ updating.at = "done" /\ updating.status = 404
    /\ updating.faqId = <<"1">> /\ updating.userId = Str(<<"2">>)
    /\ deleting.at = "done" /\ deleting.status = 404
    /\ deleting.faqId = <<"1">> /\ deleting.userId = Str(<<"2">>)
    /\ FAQs = StoredEntries
    /\ Vectors = StoredPoints

(***************************************************************************)
(* The browser: useFAQs and its cached list                                *)
(***************************************************************************)

\* an FAQ of the cached list
Item(id, text) == [id |-> id, text |-> text]

\* the list fetchFAQsByUserId returned for the user
Listed == <<Item(NumToString(1), Old), Item(NumToString(2), Old)>>

\* the query once it has that list
LoadedCache == [EmptyCache EXCEPT !.loaded = TRUE, !.items = Listed]

\* `temp-${Date.now()}`
TempId(now) == <<"t", "e", "m", "p", "-">> \o NumToString(now)

\* Date.now() of the model
Times == {1, 2}

\* queryClient.getQueryData(['faqs', userId])
GetQueryData(c) == [loaded |-> c.loaded, items |-> c.items]

\* the parameter (old = []) of an updater
OldOrEmpty(c) == IF c.loaded THEN c.items ELSE <<>>

\* queryClient.setQueryData(['faqs', userId], list)
SetQueryData(c, list) == [c EXCEPT !.loaded = TRUE, !.items = list]

\* old.map((faq) => (faq.id === id ? { ...faq, question, answer } : faq))
MapReplace(list, id, text) ==
    [i \in 1..Len(list) |-> IF list[i].id = id THEN Item(id, text) ELSE list[i]]

\* old.filter((faq) => faq.id !== id)
FilterOut(list, id) == SelectSeq(list, LAMBDA faq : faq.id # id)

\* the list after the optimistic change of a mutation
Optimistic(c, kind, id, text) ==
    CASE kind = "create" -> Append(OldOrEmpty(c), Item(id, text))
      [] kind = "update" -> MapReplace(OldOrEmpty(c), id, text)
      [] kind = "delete" -> FilterOut(OldOrEmpty(c), id)

\* some mutation is between its onMutate and its onSettled
InProgress == \E m \in Mutations : mutations[m].at = "pending"

\* onMutate: cancelQueries, the snapshot, the optimistic change, and the
\* context { previous }
OnMutate(m, kind, id, text) ==
    /\ mutations' = [mutations EXCEPT ![m] =
           [at |-> "pending", kind |-> kind, id |-> id,
            previous |-> GetQueryData(cache)]]
    /\ cache' = [SetQueryData(cache, Optimistic(cache, kind, id, text)) EXCEPT
           !.fetching = FALSE,
           !.first = IF InProgress THEN @ ELSE GetQueryData(cache),
           !.refetched = IF InProgress THEN @ ELSE FALSE]

\* onError and onSettled: if (context?.previous) setQueryData(previous),
\* then invalidateQueries
OnError(m) ==
    /\ mutations' = [mutations EXCEPT ![m].at = "failed"]
    /\ cache' = [(IF mutations[m].previous.loaded
                  THEN SetQueryData(cache, mutations[m].previous.items)
                  ELSE cache) EXCEPT !.fetching = TRUE]

\* onSuccess and onSettled: invalidateQueries
OnSuccess(m) ==
    /\ mutations' = [mutations EXCEPT ![m].at = "succeeded"]
    /\ cache' = [cache EXCEPT !.fetching = TRUE]

\* toast.error and toast.success of the three mutations
FailedToast(kind) ==
    CASE kind = "create" -> "Failed to create FAQ"
      [] kind = "update" -> "Failed to update FAQ"
      [] kind = "delete" -> "Failed to delete FAQ"

SuccessToast(kind) ==
    CASE kind = "create" -> "FAQ created successfully"
      [] kind = "update" -> "FAQ updated successfully"
      [] kind = "delete" -> "FAQ deleted successfully"

\* state the browser does not touch
backend == <<Users, FAQs, pc, req, question, chatbotOwnerId,
             chatbotOwnerProfile, vectorQuery, matchingFaqIds, faqs, messages,
             response, calls, previous, Vectors, creating, deleting, updating,
             workflow, retraining, started>>

(***************************************************************************)
(* createMutation and waitForWorkflowCompletion                            *)
(***************************************************************************)

\* the states the loop takes for completion and for failure
CompletionStates == {"completed", "success", "succeeded", "done"}
FailureStates == {"failed", "error", "cancelled", "rejected"}

\* the state of a status response of the model; "" is a response without
\* one, "queued" a state the loop knows nothing of
PolledStates == {"", "running", "queued", "completed", "failed", "cancelled"}

\* the names of the steps of FAQWorkflow, as their words
StepNames ==
    {<<"create", "database", "record">>, <<"generate", "embedding">>,
     <<"insert", "vector">>}

\* stepName.includes(word), for a word of the name
Includes(stepName, word) == \E i \in 1..Len(stepName) : stepName[i] = word

\* a status response: state, currentStep (<<>> when absent) and the steps
\* done so far
StatusResponses ==
    [state : PolledStates,
     currentStep : StepNames \cup {<<>>},
     steps : {<<>>, <<<<"create", "database", "record">>>>,
              <<<<"create", "database", "record">>, <<"generate", "embedding">>,
                <<"insert", "vector">>>>}]

\* the workflowStep the loop shows for a status response, lines 68-116
DetectedStep(status, attempt, shown) ==
    LET current == status.currentStep
        lastStep == IF status.steps = <<>> THEN <<>>
                    ELSE status.steps[Len(status.steps)]
    IN IF Includes(current, "database") \/ Includes(current, "record")
       THEN "creating-db-record"
       ELSE IF Includes(current, "embedding") THEN "generating-embedding"
       ELSE IF Includes(current, "vector") THEN "inserting-vector"
       ELSE IF Includes(lastStep, "database") \/ Includes(lastStep, "record")
       THEN "generating-embedding"
       ELSE IF Includes(lastStep, "embedding") THEN "inserting-vector"
       ELSE IF Includes(lastStep, "vector") THEN "completed"
       ELSE IF status.state \in {"running", "pending", ""}
       THEN IF attempt < 3 THEN "creating-db-record"
            ELSE IF attempt < 10 THEN "generating-embedding"
            ELSE "inserting-vector"
       ELSE shown

\* the catch of the loop, lines 138-157, for an error whose message does or
\* does not include '404'
Caught(p, with404) ==
    IF with404 /\ p.attempt < 5
    THEN [p EXCEPT !.step = "starting", !.at = "delay"]
    ELSE IF p.attempt = MaxAttempts - 1
    THEN [p EXCEPT !.step = "completed", !.at = "returned"]
    ELSE [p EXCEPT !.at = "delay"]

\* the mutation of the model that is the createMutation
Creation == 1

InitPoll ==
    /\ Users = UserRows
    /\ FAQs = StoredEntries
    /\ Vectors = StoredPoints
    /\ deleting = NotDeleting
    /\ pc = "idle"
    /\ req = NoRequest
    /\ question = Declared.question
    /\ chatbotOwnerId = Declared.chatbotOwnerId
    /\ chatbotOwnerProfile = Declared.chatbotOwnerProfile
    /\ vectorQuery = Declared.vectorQuery
    /\ matchingFaqIds = Declared.matchingFaqIds
    /\ faqs = Declared.faqs
    /\ messages = Declared.messages
    /\ response = NoResponse
    /\ calls = <<>>
    /\ previous = NoPrevious
    /\ creating = IdleClients
    /\ updating = NotUpdating
    /\ workflow = NoWorkflow
    /\ retraining = NotRetraining
    /\ polling = NotPolling
    /\ cache = LoadedCache
    /\ mutations = NoMutations
    /\ started = 0

\* mutate({ question, answer }): onMutate runs before the mutationFn
BeginCreate(now) ==
    /\ polling.at = "idle"
    /\ OnMutate(Creation, "create", TempId(now), Made)
    /\ polling' = [polling EXCEPT !.at = "createFAQEntry"]
    /\ UNCHANGED backend

\* mutationFn: setWorkflowStep('starting'), await createFAQEntry; with a
\* workflowId waitForWorkflowCompletion begins: onStepUpdate('starting')
\* and the first delay
CreateEntry(out) ==
    /\ polling.at = "createFAQEntry"
    /\ polling' =
           CASE out = "workflowId" ->
                    [polling EXCEPT !.step = "starting", !.at = "starting"]
             [] out = "no workflowId" ->
                    [polling EXCEPT !.step = "completed", !.at = "returned"]
             [] out = "throws" -> [polling EXCEPT !.step = "starting", !.at = "rejected"]
    /\ UNCHANGED <<cache, mutations, backend>>

\* the loop test that lets one attempt too many through
ContinuesInclusive(attempt) == attempt <= MaxAttempts

\* whether the loop goes on: attempt < maxAttempts
Continues(attempt) == attempt < MaxAttempts

\* after the first delay: let attempt = 0 and the test of the loop; after
\* the loop onStepUpdate('completed')
FirstAttempt ==
    /\ polling.at = "starting"
    /\ polling' = IF Continues(0) THEN [polling EXCEPT !.at = "poll"]
                  ELSE [polling EXCEPT !.step = "completed", !.at = "returned"]
    /\ UNCHANGED <<cache, mutations, backend>>

\* await getFAQWorkflowStatus(workflowId) answers with a status
PollStatus(status) ==
    /\ polling.at = "poll"
    /\ LET p == [polling EXCEPT
                    !.polls = @ + 1,
                    !.state = status.state,
                    !.step = DetectedStep(status, polling.attempt, @)]
       IN polling' =
              IF status.state \in CompletionStates
              THEN [p EXCEPT !.step = "completed", !.at = "returned"]
              ELSE IF status.state \in FailureStates
              THEN Caught([p EXCEPT !.step = "failed"], FALSE)
              ELSE [p EXCEPT !.at = "delay"]
    /\ UNCHANGED <<cache, mutations, backend>>

\* await getFAQWorkflowStatus(workflowId) throws
PollError(with404) ==
    /\ polling.at = "poll"
    /\ polling' = Caught([polling EXCEPT
                             !.polls = @ + 1,
                             !.notFound = @ + (IF with404 THEN 1 ELSE 0)],
                         with404)
    /\ UNCHANGED <<cache, mutations, backend>>

\* a delay of the loop is over: attempt++ and the test of the loop; after
\* the loop onStepUpdate('completed')
NextAttempt ==
    /\ polling.at = "delay"
    /\ LET p == [polling EXCEPT !.attempt = @ + 1] IN
       polling' = IF Continues(p.attempt) THEN [p EXCEPT !.at = "poll"]
                  ELSE [p EXCEPT !.step = "completed", !.at = "returned"]
    /\ UNCHANGED <<cache, mutations, backend>>

\* the mutationFn has returned or thrown: onSuccess or onError, then
\* onSettled
Settle ==
    /\ polling.at \in {"returned", "rejected"}
    /\ IF polling.at = "returned"
       THEN /\ OnSuccess(Creation)
            /\ polling' = [polling EXCEPT !.at = "settled", !.step = "none",
                                          !.toast = SuccessToast("create")]
       ELSE /\ OnError(Creation)
            /\ polling' = [polling EXCEPT !.at = "settled", !.step = "none",
                                          !.toast = FailedToast("create")]
    /\ UNCHANGED backend

NextPoll ==
    \/ \E now \in Times : BeginCreate(now)
    \/ \E out \in {"workflowId", "no workflowId", "throws"} : CreateEntry(out)
    \/ FirstAttempt
    \/ \E status \in StatusResponses : PollStatus(status)
    \/ \E with404 \in BOOLEAN : PollError(with404)
    \/ NextAttempt
    \/ Settle

SpecPoll == InitPoll /\ [][NextPoll]_vars

\* every step of the mutation is taken at last
SpecPollFair == SpecPoll /\ WF_vars(NextPoll)

(***************************************************************************)
(* C26 as stated: when the polled workflow status reports a failure state  *)
(* (failed, error, cancelled or rejected), waitForWorkflowCompletion       *)
(* reports step 'failed' and rejects, so the create-FAQ mutation ends in   *)
(* its error path (rollback and 'Failed to create FAQ'), and a failed      *)
(* workflow is never reported as 'completed' or as a successful creation.  *)
(***************************************************************************)
FailedWorkflowRejects ==
    polling.state \in FailureStates =>
        /\ polling.at \in {"rejected", "settled"}
        /\ polling.at = "rejected" => polling.step = "failed"
        /\ polling.at = "settled" =>
               /\ polling.toast = FailedToast("create")
               /\ cache.items = mutations[Creation].previous.items

\* its last part alone: a workflow whose last status was a failure state is
\* not reported as a successful creation
FailedWorkflowNotSuccess ==
    polling.state \in FailureStates => polling.toast # SuccessToast("create")

(***************************************************************************)
(* C30: waitForWorkflowCompletion always terminates.  Whatever the status  *)
(* responses and the fetch errors are, repeated 404s included, it makes at *)
(* most maxAttempts status polls, never throws, and returns.               *)
(***************************************************************************)
WaitTerminates ==
    /\ [](polling.polls <= MaxAttempts)
    /\ [][polling.at \in {"starting", "poll", "delay"} =>
              polling'.at \in {"starting", "poll", "delay", "returned"}]_vars
    /\ (polling.at = "starting" ~> polling.at = "returned")

\* every poll up to the last allowed one ended in a 404 error, and the
\* function has returned
ReturnedAfterNotFounds ==
    /\ polling.at = "returned"
    /\ polling.polls = MaxAttempts
    /\ polling.notFound = MaxAttempts

(***************************************************************************)
(* The three mutations of useFAQs on the cached list                       *)
(***************************************************************************)

\* the ids a mutation of the model names: two listed FAQs
ListedIds == {Listed[i].id : i \in 1..Len(Listed)}

\* what a refetch of the model may bring: the list as it was, or the list
\* with a created FAQ
FetchedLists == {Listed, Append(Listed, Item(NumToString(3), Made))}

InitCache ==
    /\ Users = UserRows
    /\ FAQs = StoredEntries
    /\ Vectors = StoredPoints
    /\ deleting = NotDeleting
    /\ pc = "idle"
    /\ req = NoRequest
    /\ question = Declared.question
    /\ chatbotOwnerId = Declared.chatbotOwnerId
    /\ chatbotOwnerProfile = Declared.chatbotOwnerProfile
    /\ vectorQuery = Declared.vectorQuery
    /\ matchingFaqIds = Declared.matchingFaqIds
    /\ faqs = Declared.faqs
    /\ messages = Declared.messages
    /\ response = NoResponse
    /\ calls = <<>>
    /\ previous = NoPrevious
    /\ creating = IdleClients
    /\ updating = NotUpdating
    /\ workflow = NoWorkflow
    /\ retraining = NotRetraining
    /\ polling = NotPolling
    /\ cache \in {LoadedCache, [EmptyCache EXCEPT !.fetching = TRUE]}
    /\ mutations = NoMutations
    /\ started = 0

\* createMutation.mutate: onMutate, then the mutationFn begins with
\* setWorkflowStep('starting')
MutateCreate(m, now) ==
    /\ mutations[m].at = "idle"
    /\ OnMutate(m, "create", TempId(now), Made)
    /\ polling' = [polling EXCEPT !.step = "starting"]
    /\ UNCHANGED backend

\* updateMutation.mutate({ id, question, answer }): onMutate
MutateUpdate(m, id) ==
    /\ mutations[m].at = "idle"
    /\ OnMutate(m, "update", id, New)
    /\ UNCHANGED <<polling, backend>>

\* deleteMutation.mutate(id): onMutate
MutateDelete(m, id) ==
    /\ mutations[m].at = "idle"
    /\ OnMutate(m, "delete", id, <<>>)
    /\ UNCHANGED <<polling, backend>>

\* the workflowStep after a mutation has settled: only createMutation
\* calls setWorkflowStep(null)
StepAfter(kind) == IF kind = "create" THEN "none" ELSE polling.step

\* the mutationFn of a mutation throws: onError, onSettled
MutationFails(m) ==
    /\ mutations[m].at = "pending"
    /\ OnError(m)
    /\ polling' = [polling EXCEPT !.toast = FailedToast(mutations[m].kind),
                                  !.step = StepAfter(mutations[m].kind)]
    /\ UNCHANGED backend

\* the mutationFn of a mutation returns: onSuccess, onSettled
MutationSucceeds(m) ==
    /\ mutations[m].at = "pending"
    /\ OnSuccess(m)
    /\ polling' = [polling EXCEPT !.toast = SuccessToast(mutations[m].kind),
                                  !.step = StepAfter(mutations[m].kind)]
    /\ UNCHANGED backend

\* the fetch of the query answers: the list replaces the cached one
Refetch(list) ==
    /\ cache.fetching
    /\ cache' = [SetQueryData(cache, list) EXCEPT !.fetching = FALSE,
                                                  !.refetched = TRUE]
    /\ UNCHANGED <<mutations, polling, backend>>

NextCache ==
    \/ \E m \in Mutations, now \in Times : MutateCreate(m, now)
    \/ \E m \in Mutations, id \in ListedIds : MutateUpdate(m, id)
    \/ \E m \in Mutations, id \in ListedIds : MutateDelete(m, id)
    \/ \E m \in Mutations : MutationFails(m)
    \/ \E m \in Mutations : MutationSucceeds(m)
    \/ \E list \in FetchedLists : Refetch(list)

SpecCache == InitCache /\ [][NextCache]_vars

\* every mutation of the model has failed
AllFailed == \A m \in Mutations : mutations[m].at = "failed"

(***************************************************************************)
(* C27 as stated: when several FAQ mutations (create, update, delete)      *)
(* overlap on the same user's cached list and fail, each rollback removes  *)
(* only that mutation's own optimistic change: once all of them have       *)
(* failed, and before any refetch, the cached list equals the list as it   *)
(* was before the first of them started, with no optimistic item of a      *)
(* failed mutation left in it.                                             *)
(***************************************************************************)
RollbacksRestoreTheList ==
    AllFailed /\ cache.first.loaded /\ ~cache.refetched =>
        cache.items = cache.first.items

\* a rollback does restore the list when the mutation's own optimistic
\* change is all that happened to the list since its snapshot
RollbackRestoresAlone ==
    [][\A m \in Mutations :
          /\ mutations[m].at = "pending" /\ mutations'[m].at = "failed"
          /\ mutations[m].previous.loaded
          /\ cache.items = Optimistic([loaded |-> TRUE,
                                       items |-> mutations[m].previous.items],
                                      mutations[m].kind, mutations[m].id,
                                      IF mutations[m].kind = "create" THEN Made
                                      ELSE New)
          => cache'.items = mutations[m].previous.items]_vars

====
